---- MODULE Spec2Model ----
(***************************************************************************)
(* TreeMapBase: the tree model (src/src/model.rs), the two-phase scanner   *)
(* worker (src/src/scanner.rs) and the consumer that polls the worker's    *)
(* channel (src/src/app.rs).                                               *)
(*                                                                         *)
(* Conventions.  Option<T> is a sequence: <<>> is None, <<v>> is Some(v).  *)
(* A PathBuf is the sequence of its components.  Sequences are 1-based, so *)
(* the source's index i is i+1 here.                                       *)
(***************************************************************************)
EXTENDS Integers, Sequences, FiniteSets, TLC

(***************************************************************************)
(* Bounds of the model.                                                    *)
(***************************************************************************)
\* Stands for u64::MAX: sizes saturate here (TLC has no 64-bit integers).
SizeMax == 6
\* insert_relative calls in one run of the tree-model specification.
MaxInserts == 3
\* Entries below the root in a directory tree handed to the scanner.
MaxEntries == 3
\* start_scan calls in one run of the consumer specification.
MaxScans == 2
\* The node budget of a layout that no tree of the model exhausts.
MaxCells == 8
\* Stands for the 24 bits of an f32's significand.
F32Bits == 6
\* Stands for the exponent of the least positive f32: floats are multiples
\* of 2^-F32Frac.
F32Frac == 6
\* the side below which render_ready_state draws no canvas (40 in the source)
MinCanvasSide == 4

Names == {"a", "b"}
Segments == Names \cup {"."}
LeafSizes == {0, 1, SizeMax - 1}
RootPath == <<"root">>

None == <<>>
Some(v) == <<v>>

Max(a, b) == IF a >= b THEN a ELSE b
Min(a, b) == IF a <= b THEN a ELSE b

\* u64::saturating_add
saturating_add(a, b) == IF a + b > SizeMax THEN SizeMax ELSE a + b
\* u64::saturating_sub
saturating_sub(a, b) == IF a >= b THEN a - b ELSE 0

(***************************************************************************)
(* model.rs: Node                                                          *)
(***************************************************************************)
NewNode(name, path, size) ==
    [name |-> name, path |-> path, size |-> size, children |-> <<>>]

\* Path::components(): empty segments and every "." but a leading one vanish.
Components(relative_path) ==
    LET keep(i) == /\ relative_path[i] # ""
                   /\ (relative_path[i] = "." => i = 1)
        RECURSIVE from(_)
        from(i) == IF i > Len(relative_path) THEN <<>>
                   ELSE IF keep(i) THEN <<relative_path[i]>> \o from(i + 1)
                   ELSE from(i + 1)
    IN from(1)

\* Faulty variant: the lookup never finds the child.
PositionNone(children, component_name) == 0

\* children.iter().position(|child| child.name == component_name); 0 is None
Position(children, component_name) ==
    IF \E i \in 1..Len(children) : children[i].name = component_name
    THEN CHOOSE i \in 1..Len(children) :
            /\ children[i].name = component_name
            /\ \A j \in 1..(i - 1) : children[j].name # component_name
    ELSE 0

RECURSIVE insert_components(_, _, _, _)
insert_components(self, components, index, leaf_size) ==
    IF index > Len(components) THEN self
    ELSE LET component_name == components[index] IN
         IF component_name = "" \/ component_name = "."
         THEN insert_components(self, components, index + 1, leaf_size)
         ELSE LET found == Position(self.children, component_name)
                  children1 ==
                      IF found = 0
                      THEN Append(self.children,
                                  NewNode(component_name,
                                          Append(self.path, component_name), 0))
                      ELSE self.children
                  child_index == IF found = 0 THEN Len(children1) ELSE found
                  is_leaf == index = Len(components)
                  child == children1[child_index]
                  child1 == IF is_leaf
                            THEN [child EXCEPT !.size = leaf_size]
                            ELSE insert_components(child, components,
                                                   index + 1, leaf_size)
              IN [self EXCEPT !.children =
                                  [children1 EXCEPT ![child_index] = child1]]

\* Faulty variant: a path that begins with "." is taken for an empty one.
insert_relative_no_dot(self, relative_path, leaf_size) ==
    LET components == Components(relative_path) IN
    IF components = <<>> \/ components[1] = "." THEN self
    ELSE insert_components(self, components, 1, leaf_size)

insert_relative(self, relative_path, leaf_size) ==
    LET components == Components(relative_path) IN
    IF components = <<>> THEN self
    ELSE insert_components(self, components, 1, leaf_size)

\* Faulty variant: the loop assigns the child's total instead of accumulating it.
RECURSIVE compute_total_size_last(_)
compute_total_size_last(self) ==
    IF self.children = <<>> THEN self
    ELSE LET kids == [i \in 1..Len(self.children) |->
                         compute_total_size_last(self.children[i])]
         IN [self EXCEPT !.children = kids, !.size = kids[Len(kids)].size]

\* Faulty variant: a plain sum that is not clamped at the u64 bound is reduced
\* modulo the width instead (wrapping add).
RECURSIVE compute_total_size_wrapping(_)
compute_total_size_wrapping(self) ==
    IF self.children = <<>> THEN self
    ELSE LET kids == [i \in 1..Len(self.children) |->
                         compute_total_size_wrapping(self.children[i])]
             RECURSIVE total(_)
             total(n) == IF n = 0 THEN 0
                         ELSE (total(n - 1) + kids[n].size) % (SizeMax + 1)
         IN [self EXCEPT !.children = kids, !.size = total(Len(kids))]

\* The node after compute_total_size; the value returned is its size.
RECURSIVE compute_total_size(_)
compute_total_size(self) ==
    IF self.children = <<>> THEN self
    ELSE LET kids == [i \in 1..Len(self.children) |->
                         compute_total_size(self.children[i])]
             RECURSIVE total(_)
             total(n) == IF n = 0 THEN 0
                         ELSE saturating_add(total(n - 1), kids[n].size)
         IN [self EXCEPT !.children = kids, !.size = total(Len(kids))]

\* Faulty variant: an unstable sort, which puts a node before its equals.
SortBySizeDescUnstable(children) ==
    LET RECURSIVE place(_, _)
        place(s, node) ==
            IF s = <<>> THEN <<node>>
            ELSE IF Head(s).size > node.size
                 THEN <<Head(s)>> \o place(Tail(s), node)
                 ELSE <<node>> \o s
        RECURSIVE sorted(_)
        sorted(n) == IF n = 0 THEN <<>> ELSE place(sorted(n - 1), children[n])
    IN sorted(Len(children))

\* slice::sort_by(|a, b| b.size.cmp(&a.size)): stable, descending by size.
SortBySizeDesc(children) ==
    LET RECURSIVE place(_, _)
        \* put node after every element of the sorted s whose size is >= its own
        place(s, node) ==
            IF s = <<>> THEN <<node>>
            ELSE IF Head(s).size >= node.size
                 THEN <<Head(s)>> \o place(Tail(s), node)
                 ELSE <<node>> \o s
        RECURSIVE sorted(_)
        sorted(n) == IF n = 0 THEN <<>> ELSE place(sorted(n - 1), children[n])
    IN sorted(Len(children))

RECURSIVE sort_children_by_size_desc(_)
sort_children_by_size_desc(self) ==
    LET s == SortBySizeDesc(self.children)
    IN [self EXCEPT !.children =
                        [i \in 1..Len(s) |-> sort_children_by_size_desc(s[i])]]

(***************************************************************************)
(* Observations on a tree                                                  *)
(***************************************************************************)
\* Every node of the tree, the root included.
RECURSIVE NodesOf(_)
NodesOf(node) ==
    {node} \cup UNION {NodesOf(node.children[i]) : i \in 1..Len(node.children)}

SumSat(children) ==
    LET RECURSIVE total(_)
        total(n) == IF n = 0 THEN 0
                    ELSE saturating_add(total(n - 1), children[n].size)
    IN total(Len(children))

\* The set of <<path, size>> of the nodes of a tree.
PathSizes(node) == {<<n.path, n.size>> : n \in NodesOf(node)}

(***************************************************************************)
(* The directory tree as WalkDir reports it                                *)
(***************************************************************************)
\* One item of a WalkDir iteration.  kind "dir" and "file" are Ok(entry)
\* (every entry that is not a directory takes the file branch), kind "err"
\* is Err(error).  rel is the path below the root, so Len(rel) is
\* entry.depth().  meta_ok tells whether fs::symlink_metadata succeeds and
\* size is the metadata.len() it then reports.
Item(kind, rel, size, meta_ok) ==
    [kind |-> kind, rel |-> rel, size |-> size, meta_ok |-> meta_ok]

FileSizes == {1, 2}
RelPaths == {<<n>> : n \in Names} \cup {<<n, m>> : n \in Names, m \in Names}

Items ==
    {Item("dir", p, 0, TRUE) : p \in RelPaths}
    \cup {Item("err", p, 0, TRUE) : p \in RelPaths}
    \cup {Item("file", p, s, TRUE) : p \in RelPaths, s \in FileSizes}
    \cup {Item("file", p, 0, FALSE) : p \in RelPaths}

Front(s) == SubSeq(s, 1, Len(s) - 1)
IsPrefix(p, q) == Len(p) <= Len(q) /\ SubSeq(q, 1, Len(p)) = p

\* x may follow the pre-order walk w: its path is new, and its parent is the
\* root or a directory of w whose subtree the walk has not left yet.
MayFollow(w, x) ==
    /\ \A i \in 1..Len(w) : w[i].rel # x.rel
    /\ \/ Len(x.rel) = 1
       \/ \E i \in 1..Len(w) :
             /\ w[i].kind = "dir"
             /\ w[i].rel = Front(x.rel)
             /\ \A j \in (i + 1)..Len(w) : IsPrefix(w[i].rel, w[j].rel)

\* The pre-order listings of the directory trees of at most n entries.
RECURSIVE Listings(_)
Listings(n) ==
    IF n = 0 THEN {<<>>}
    ELSE LET shorter == Listings(n - 1)
         IN shorter \cup {Append(w, x) : <<w, x>> \in
                             {wx \in shorter \X Items : MayFollow(wx[1], wx[2])}}

\* What a walker yields for a root that is a directory: the root itself at
\* depth 0, then the listing; or a single error when the root has become
\* unreadable since run_scan_pipeline looked at it.
AllWalks(n) ==
    {<<[kind |-> "dir", rel |-> <<>>, size |-> 0, meta_ok |-> TRUE]>> \o w :
        w \in Listings(n)}
    \cup {<<[kind |-> "err", rel |-> <<>>, size |-> 0, meta_ok |-> TRUE]>>}

\* WalkDir::max_depth(d): entries deeper than d are not yielded.
LimitDepth(walk, d) ==
    LET RECURSIVE from(_)
        from(i) == IF i > Len(walk) THEN <<>>
                   ELSE IF Len(walk[i].rel) <= d
                        THEN <<walk[i]>> \o from(i + 1)
                        ELSE from(i + 1)
    IN from(1)

\* The node of the tree at path.
RECURSIVE NodeAt(_, _)
NodeAt(root, path) ==
    IF root.path = path THEN root
    ELSE LET i == CHOOSE i \in 1..Len(root.children) :
                     IsPrefix(root.children[i].path, path)
         IN NodeAt(root.children[i], path)

RootKinds == {"dir", "file", "missing"}

RootEntry == Item("dir", <<>>, 0, TRUE)
RootError == Item("err", <<>>, 0, TRUE)

\* The directory trees a scan may be started on, as a walker without a depth
\* limit would list them.
ScanWalks == AllWalks(MaxEntries)

\* The second walker finds the tree that the first one found.
Unchanged(walk) == {walk}

\* What the second walker may find where the first one found walk: the same
\* tree, the tree without its last entry, or the tree with one more file.
Rewalks(walk) ==
    IF Head(walk).kind # "dir" THEN {walk}
    ELSE {walk}
         \cup (IF Len(walk) > 1 THEN {Front(walk)} ELSE {})
         \cup {Append(walk, Item("file", p, 1, TRUE)) :
                  p \in {q \in RelPaths :
                            MayFollow(Tail(walk), Item("file", q, 1, TRUE))}}

\* What the second walker finds where the first one found walk, on a tree
\* that is left alone during the scan (quiet) and on one that is not.
SecondWalks(quiet, walk) == IF quiet THEN Unchanged(walk) ELSE Rewalks(walk)

(***************************************************************************)
(* scanner.rs: ScanConfig, ScanProgress, ScanStats, ScanResult             *)
(***************************************************************************)
ScanConfig(max_depth, max_files, progress_interval) ==
    [max_depth |-> max_depth, max_files |-> max_files,
     progress_interval |-> progress_interval]

Configs ==
    {ScanConfig(d, f, p) : d \in {1, 2},
                           f \in {None, Some(1)},
                           p \in {1, 2}}

\* A percentage is the exact fraction num/den.
Pct(num, den) == [num |-> num, den |-> den]
PctLE(p, q) == p.num * q.den <= q.num * p.den
PctEq(p, q) == p.num * q.den = q.num * p.den

\* ScanProgress::default() with the given phase
DefaultProgress(phase) ==
    [phase |-> phase,
     entries_scanned |-> 0,
     files_scanned |-> 0,
     directories_scanned |-> 0,
     warnings |-> 0,
     truncated |-> FALSE,
     current_path |-> None,
     total_estimated_entries |-> None,
     remaining_estimated_entries |-> None,
     progress_percent |-> None,
     eta |-> None]

Progress(progress) == [type |-> "Progress", progress |-> progress]
FinishedOk(result) == [type |-> "Finished", ok |-> TRUE, result |-> result,
                       error |-> <<>>]
FinishedErr(error) == [type |-> "Finished", ok |-> FALSE, result |-> None,
                       error |-> error]

DisplayPath(rel) == RootPath \o rel

(***************************************************************************)
(* f32.  A float is the integer count of its units of 2^-F32Frac; the      *)
(* floats are the counts of at most F32Bits significant bits, so below     *)
(* 2^(F32Bits-1) units they are evenly spaced, as f32's subnormals are.    *)
(* Every operation rounds the exact result to the nearest float, ties to   *)
(* the even one.                                                           *)
(***************************************************************************)
RECURSIVE Pow2(_)
Pow2(n) == IF n = 0 THEN 1 ELSE 2 * Pow2(n - 1)

F32Unit == Pow2(F32Frac)

\* The integer nearest to num/den (num >= 0, den > 0), ties to even.
RoundHalfEven(num, den) ==
    LET floor == num \div den
        rest == num % den
    IN IF 2 * rest < den THEN floor
       ELSE IF 2 * rest > den THEN floor + 1
       ELSE IF floor % 2 = 0 THEN floor ELSE floor + 1

\* The least e >= 0 for which whole < 2^(F32Bits + e).
RECURSIVE ExponentFrom(_, _)
ExponentFrom(whole, e) ==
    IF whole < Pow2(F32Bits + e) THEN e ELSE ExponentFrom(whole, e + 1)

\* The float nearest to num/den units (den > 0).
F32Round(num, den) ==
    LET magnitude == IF num < 0 THEN 0 - num ELSE num
        e == ExponentFrom(magnitude \div den, 0)
        rounded == RoundHalfEven(magnitude, den * Pow2(e)) * Pow2(e)
    IN IF num < 0 THEN 0 - rounded ELSE rounded

\* The literal num/den, as 0.2 is F32(1, 5)
F32(num, den) == F32Round(num * F32Unit, den)
\* "size as f32"
U64AsF32(n) == F32Round(n * F32Unit, 1)
F32Add(a, b) == F32Round(a + b, 1)
F32Sub(a, b) == F32Round(a - b, 1)
F32Mul(a, b) == F32Round(a * b, F32Unit)
\* b is not 0
F32Div(a, b) == IF b < 0 THEN F32Round(0 - a * F32Unit, 0 - b)
                ELSE F32Round(a * F32Unit, b)

\* A float that may be infinite or not a number: what worst_ratio returns.
Finite(v) == [kind |-> "finite", v |-> v]
Infinity == [kind |-> "inf", v |-> 0]
NaN == [kind |-> "nan", v |-> 0]

\* a / b where a >= 0 and b >= 0 and b may be 0
F32DivExt(a, b) ==
    IF b # 0 THEN Finite(F32Div(a, b))
    ELSE IF a = 0 THEN NaN ELSE Infinity

\* f32::max: a NaN operand is ignored
F32MaxExt(a, b) ==
    IF a.kind = "nan" THEN b
    ELSE IF b.kind = "nan" THEN a
    ELSE IF a.kind = "inf" \/ b.kind = "inf" THEN Infinity
    ELSE Finite(Max(a.v, b.v))

\* a <= b on floats that are not negative: false when either is NaN
F32LeExt(a, b) ==
    /\ a.kind # "nan"
    /\ b.kind # "nan"
    /\ \/ b.kind = "inf"
       \/ a.kind = "finite" /\ b.kind = "finite" /\ a.v <= b.v

(***************************************************************************)
(* treemap.rs                                                              *)
(***************************************************************************)
LayoutRect(x, y, w, h) == [x |-> x, y |-> y, w |-> w, h |-> h]

area(self) == F32Mul(Max(self.w, 0), Max(self.h, 0))

shortest_side(self) == Min(self.w, self.h)

shrink(self, padding) ==
    LET doubled == F32Mul(padding, F32(2, 1))
    IN LayoutRect(F32Add(self.x, padding),
                  F32Add(self.y, padding),
                  Max(F32Sub(self.w, doubled), 0),
                  Max(F32Sub(self.h, doubled), 0))

\* The node of a cell or of a row item is a reference: the node's path
\* stands for it.
TreemapCell(node, rect, depth) ==
    [node |-> node.path, rect |-> rect, depth |-> depth]

RowItem(node, item_area) == [node |-> node, area |-> item_area]

\* "row.iter().map(|item| item.area).sum()", an f32 sum from the left
RowArea(row) ==
    LET RECURSIVE total(_)
        total(n) == IF n = 0 THEN 0 ELSE F32Add(total(n - 1), row[n].area)
    IN total(Len(row))

worst_ratio(row, side) ==
    IF row = <<>> \/ side <= 0 THEN Infinity
    ELSE LET areas == [i \in 1..Len(row) |-> Max(row[i].area, 0)]
             RECURSIVE least(_)
             least(n) == IF n = 1 THEN areas[1] ELSE Min(least(n - 1), areas[n])
             RECURSIVE most(_)
             most(n) == IF n = 0 THEN 0 ELSE Max(most(n - 1), areas[n])
             RECURSIVE total(_)
             total(n) == IF n = 0 THEN 0 ELSE F32Add(total(n - 1), areas[n])
             min_area == least(Len(row))
             max_area == most(Len(row))
             sum == total(Len(row))
         IN IF min_area <= 0 \/ sum <= 0 THEN Infinity
            ELSE LET side_sq == F32Mul(side, side)
                     sum_sq == F32Mul(sum, sum)
                     ratio_a == F32DivExt(F32Mul(side_sq, max_area), sum_sq)
                     ratio_b == F32DivExt(sum_sq, F32Mul(side_sq, min_area))
                 IN F32MaxExt(ratio_a, ratio_b)

\* Faulty variant: the strip is built along the longest side.
VerticalStripWhenTaller(bounds) == bounds.w < bounds.h

\* "if bounds.w >= bounds.h": the strip is vertical
VerticalStrip(bounds) == bounds.w >= bounds.h

\* layout_row: the pairs pushed to output, in order, and the rectangle
\* returned.
layout_row(row, bounds) ==
    LET row_area == RowArea(row) IN
    IF VerticalStrip(bounds)
    THEN LET column_width == IF bounds.h > 0 THEN F32Div(row_area, bounds.h)
                             ELSE 0
             height(i) == IF column_width > 0
                          THEN F32Div(row[i].area, column_width) ELSE 0
             RECURSIVE y(_)
             y(i) == IF i = 1 THEN bounds.y
                     ELSE F32Add(y(i - 1), height(i - 1))
         IN [placed |-> [i \in 1..Len(row) |->
                           [item |-> row[i],
                            rect |-> LayoutRect(bounds.x, y(i),
                                                Max(column_width, 0),
                                                Max(height(i), 0))]],
             remaining |-> LayoutRect(F32Add(bounds.x, column_width),
                                      bounds.y,
                                      Max(F32Sub(bounds.w, column_width), 0),
                                      bounds.h)]
    ELSE LET row_height == IF bounds.w > 0 THEN F32Div(row_area, bounds.w)
                           ELSE 0
             width(i) == IF row_height > 0
                         THEN F32Div(row[i].area, row_height) ELSE 0
             RECURSIVE x(_)
             x(i) == IF i = 1 THEN bounds.x
                     ELSE F32Add(x(i - 1), width(i - 1))
         IN [placed |-> [i \in 1..Len(row) |->
                           [item |-> row[i],
                            rect |-> LayoutRect(x(i), bounds.y,
                                                Max(width(i), 0),
                                                Max(row_height, 0))]],
             remaining |-> LayoutRect(bounds.x,
                                      F32Add(bounds.y, row_height),
                                      bounds.w,
                                      Max(F32Sub(bounds.h, row_height), 0))]

\* squarify_items: the loop from item i on, with the row being collected,
\* what is left of the rectangle and the output so far.
RECURSIVE SquarifyFrom(_, _, _, _, _)
SquarifyFrom(items, i, row, remaining, output) ==
    IF i > Len(items)
    THEN IF row # <<>> THEN output \o layout_row(row, remaining).placed
         ELSE output
    ELSE LET expanded_row == Append(row, items[i])
             side == Max(shortest_side(remaining), F32(1, 1))
         IN IF row = <<>> \/ F32LeExt(worst_ratio(expanded_row, side),
                                      worst_ratio(row, side))
            THEN SquarifyFrom(items, i + 1, expanded_row, remaining, output)
            ELSE LET laid == layout_row(row, remaining)
                 IN SquarifyFrom(items, i + 1, <<items[i]>>, laid.remaining,
                                 output \o laid.placed)

\* Faulty variant: the pairs come out last first.
squarify_items_reversed(items, bounds) ==
    LET output == SquarifyFrom(items, 1, <<>>, bounds, <<>>)
    IN [i \in 1..Len(output) |-> output[Len(output) + 1 - i]]

squarify_items(items, bounds) == SquarifyFrom(items, 1, <<>>, bounds, <<>>)

\* "fold(0_u64, |sum, node| sum.saturating_add(node.size))"
TotalSize(children) == SumSat(children)

\* Faulty variant: the budget is compared with > instead of >=.
BudgetSpentLate(out, max_nodes) == Len(out) > max_nodes

\* "out.len() >= max_nodes"
BudgetSpent(out, max_nodes) == Len(out) >= max_nodes

\* Faulty variant: a child of size 0 is laid out as if its size were 1.
RaiseToOne(children) ==
    [i \in 1..Len(children) |-> [children[i] EXCEPT !.size = Max(@, 1)]]

\* ".filter(|child| child.size > 0)"
FilterPositive(children) ==
    SelectSeq(children, LAMBDA child : child.size > 0)

RECURSIVE layout_recursive(_, _, _, _, _, _)

\* "for (item, rect) in squarify_items(&items, inner_bounds)": the loop over
\* the placed items from the i-th on, with the cells in out so far.
RECURSIVE LayoutPlaced(_, _, _, _, _, _)
LayoutPlaced(placed, i, depth, max_depth, max_nodes, out) ==
    IF i > Len(placed) THEN out
    ELSE LET after == layout_recursive(placed[i].item.node, placed[i].rect,
                                       depth + 1, max_depth, max_nodes, out)
         IN IF BudgetSpent(after, max_nodes) THEN after
            ELSE LayoutPlaced(placed, i + 1, depth, max_depth, max_nodes,
                              after)

\* layout_recursive: the cells in out after the call.
layout_recursive(node, bounds, depth, max_depth, max_nodes, out) ==
    IF \/ BudgetSpent(out, max_nodes)
       \/ bounds.w <= F32(1, 5)
       \/ bounds.h <= F32(1, 5)
    THEN out
    ELSE
    LET out1 == Append(out, TreemapCell(node, bounds, depth))
        inner_bounds == shrink(bounds, F32(1, 1))
        positive == FilterPositive(node.children)
        children == SortBySizeDesc(positive)
        total_size == TotalSize(children)
        total_area == area(inner_bounds)
        items == [i \in 1..Len(children) |->
                     RowItem(children[i],
                             F32Mul(total_area,
                                    F32Div(U64AsF32(children[i].size),
                                           U64AsF32(total_size))))]
    IN IF depth >= max_depth \/ node.children = <<>> THEN out1
       ELSE IF inner_bounds.w <= F32(1, 5) \/ inner_bounds.h <= F32(1, 5)
       THEN out1
       ELSE IF children = <<>> THEN out1
       ELSE IF total_size = 0 THEN out1
       ELSE LayoutPlaced(squarify_items(items, inner_bounds), 1, depth,
                         max_depth, max_nodes, out1)

(***************************************************************************)
(* State                                                                   *)
(***************************************************************************)
VARIABLES
    \* TreeMapApp (app.rs)
    mode,             \* AppMode
    scan_receiver,    \* Option<Receiver>: 0 is None, g the channel of scan g
    scan_progress,    \* ScanProgress
    scan_result,      \* Option<ScanResult>
    error_message,    \* Option<String>
    scan_generation,  \* u64
    scan_config,      \* ScanConfig: what the controls of the top bar hold
    treemap_depth,    \* usize
    max_render_nodes, \* usize
    min_cell_pixels,  \* f32
    treemap_cache,    \* Option<TreemapCache>
    frame,            \* what the latest frame that showed the result of
                      \* the latest scan did, if there was one
    \* one worker thread and one channel per start_scan call, by generation
    workers,          \* the thread's position and its locals
    chan,             \* messages sent and not yet received
    sent,             \* every message the worker has handed to tx.send
    lost,             \* how many of them tx.send refused: no receiver is left
    \* a Node under construction by a direct caller of model.rs
    tree,
    calls,            \* the insert_relative calls made on tree, in order
    stage,            \* "inserting", "totalled" or "sorted"
    \* a direct caller of treemap.rs
    layout_call,      \* the arguments of its squarified_treemap calls, if any
    cells,            \* what the latest call returned
    previous_cells,   \* what the call before it returned, if there was one
    \* a direct caller of layout_row and squarify_items
    row_call,         \* the function called and its arguments, if any
    row_output        \* what the call returned

renderVars == <<treemap_depth, max_render_nodes, min_cell_pixels, frame>>
appVars == <<mode, scan_receiver, scan_progress, scan_result, error_message,
             scan_generation, scan_config, treemap_cache, renderVars>>
workerVars == <<workers, chan, sent, lost>>
treeVars == <<tree, calls, stage>>
rowVars == <<row_call, row_output>>
layoutVars == <<layout_call, cells, previous_cells, rowVars>>
vars == <<mode, scan_receiver, scan_progress, scan_result, error_message,
          scan_generation, scan_config, treemap_depth, max_render_nodes,
          min_cell_pixels, treemap_cache, frame, workers, chan, sent, lost,
          tree, calls, stage, layout_call, cells, previous_cells, row_call,
          row_output>>

Generations == 1..MaxScans

\* ScanConfig::default()
DefaultScanConfig == ScanConfig(64, Some(250000), 400)

\* TreeMapApp::new: treemap_depth and max_render_nodes
DefaultTreemapDepth == 8
DefaultMaxRenderNodes == 20000

\* The lower end of the range of the node budget's control.
MinRenderNodes == 1000

\* A thread that has not been spawned.
NoWorker ==
    [pc |-> "unspawned",
     config |-> ScanConfig(1, None, 1),
     root_kind |-> "",
     listing |-> <<>>,
     walk |-> <<>>,
     clock |-> 0,
     progress |-> DefaultProgress("Counting"),
     estimated_total_entries |-> 0,
     root |-> NewNode("", <<>>, 0),
     warnings |-> <<>>,
     result |-> FinishedErr(<<>>)]

Init ==
    /\ mode = "AwaitingDirectory"
    /\ scan_receiver = 0
    /\ scan_progress = DefaultProgress("Counting")
    /\ scan_result = None
    /\ error_message = None
    /\ scan_generation = 0
    /\ scan_config = DefaultScanConfig
    /\ treemap_depth = DefaultTreemapDepth
    /\ max_render_nodes = DefaultMaxRenderNodes
    /\ min_cell_pixels = F32(1, 1)
    /\ treemap_cache = None
    /\ frame = None
    /\ workers = [g \in Generations |-> NoWorker]
    /\ chan = [g \in Generations |-> <<>>]
    /\ sent = [g \in Generations |-> <<>>]
    /\ lost = [g \in Generations |-> 0]
    /\ tree = NewNode("root", RootPath, 0)
    /\ calls = <<>>
    /\ stage = "inserting"
    /\ layout_call = None
    /\ cells = <<>>
    /\ previous_cells = None
    /\ row_call = None
    /\ row_output = None

(***************************************************************************)
(* model.rs driven directly: any calls, then compute_total_size, then      *)
(* sort_children_by_size_desc                                              *)
(***************************************************************************)
RelativePaths ==
    {<<>>} \cup {<<s>> : s \in Segments}
           \cup {<<s, t>> : s \in Segments, t \in Segments}

InsertRelative(relative_path, leaf_size) ==
    /\ stage = "inserting"
    /\ Len(calls) < MaxInserts
    /\ tree' = insert_relative(tree, relative_path, leaf_size)
    /\ calls' = Append(calls, <<relative_path, leaf_size>>)
    /\ UNCHANGED <<stage, appVars, workerVars, layoutVars>>

ComputeTotalSize ==
    /\ stage = "inserting"
    /\ tree' = compute_total_size(tree)
    /\ stage' = "totalled"
    /\ UNCHANGED <<calls, appVars, workerVars, layoutVars>>

SortChildrenBySizeDesc ==
    /\ stage = "totalled"
    /\ tree' = sort_children_by_size_desc(tree)
    /\ stage' = "sorted"
    /\ UNCHANGED <<calls, appVars, workerVars, layoutVars>>

NextTree ==
    \/ \E relative_path \in RelativePaths, leaf_size \in LeafSizes :
          InsertRelative(relative_path, leaf_size)
    \/ ComputeTotalSize
    \/ SortChildrenBySizeDesc

SpecTree == Init /\ [][NextTree]_vars

(***************************************************************************)
(* treemap.rs driven directly: one call of squarified_treemap on a         *)
(* finalized tree, then the same call once more                            *)
(***************************************************************************)
\* Faulty variant: the vector of the call before is reused and not cleared.
squarified_treemap_reusing(root, bounds, max_depth, max_nodes) ==
    IF bounds.w <= 0 \/ bounds.h <= 0 THEN cells
    ELSE layout_recursive(root, bounds, 0, max_depth, max_nodes, cells)

\* "let mut cells = Vec::with_capacity(2048)": every call starts from an
\* empty vector.
squarified_treemap(root, bounds, max_depth, max_nodes) ==
    IF bounds.w <= 0 \/ bounds.h <= 0 THEN <<>>
    ELSE layout_recursive(root, bounds, 0, max_depth, max_nodes, <<>>)

\* The sizes given to the entries of a tree that is laid out.
LayoutSizes == {0, 1, 2, SizeMax - 1}

\* The entries a tree that is laid out may have, parents first.
LayoutPaths == <<<<"a">>, <<"b">>, <<"c">>, <<"a", "a">>, <<"a", "b">>>>

\* The tree with the entries that sizes gives a size to (-1: no such entry),
\* inserted in the order of LayoutPaths and finalized as scan_directory
\* finalizes a tree.
LayoutTree(sizes) ==
    LET RECURSIVE after(_)
        after(n) ==
            IF n = 0 THEN NewNode("root", RootPath, 0)
            ELSE IF sizes[n] = -1 THEN after(n - 1)
            ELSE insert_relative(after(n - 1), LayoutPaths[n], sizes[n])
    IN sort_children_by_size_desc(compute_total_size(after(Len(LayoutPaths))))

\* Every choice for the first four entries, with and without a second entry
\* of size 1 below a.
LayoutTrees ==
    {LayoutTree(Append(sizes, last)) :
        sizes \in [1..(Len(LayoutPaths) - 1) -> LayoutSizes \cup {-1}],
        last \in {-1, 1}}

\* Canvases: a wide one, a tall one away from the origin, one too small for
\* any child and one without width.
LayoutBounds ==
    {LayoutRect(F32(0, 1), F32(0, 1), F32(16, 1), F32(8, 1)),
     LayoutRect(F32(1, 1), F32(2, 1), F32(6, 1), F32(12, 1)),
     LayoutRect(F32(0, 1), F32(0, 1), F32(2, 1), F32(2, 1)),
     LayoutRect(F32(0, 1), F32(0, 1), F32(0, 1), F32(4, 1))}

LayoutDepths == 0..2
LayoutBudgets == {0, 1, 3, MaxCells}

SquarifiedTreemap(root, bounds, max_depth, max_nodes) ==
    /\ layout_call' = Some([root |-> root, bounds |-> bounds,
                            max_depth |-> max_depth, max_nodes |-> max_nodes])
    /\ cells' = squarified_treemap(root, bounds, max_depth, max_nodes)
    /\ UNCHANGED <<previous_cells, rowVars, appVars, workerVars, treeVars>>

\* The caller repeats its call.
SquarifiedTreemapAgain ==
    /\ layout_call # None
    /\ previous_cells = None
    /\ previous_cells' = Some(cells)
    /\ cells' = squarified_treemap(layout_call[1].root, layout_call[1].bounds,
                                   layout_call[1].max_depth,
                                   layout_call[1].max_nodes)
    /\ UNCHANGED <<layout_call, rowVars, appVars, workerVars, treeVars>>

\* The first call, on any tree, canvas, depth and budget.
FirstCall ==
    /\ layout_call = None
    /\ \E root \in LayoutTrees, bounds \in LayoutBounds,
          max_depth \in LayoutDepths, max_nodes \in LayoutBudgets :
          SquarifiedTreemap(root, bounds, max_depth, max_nodes)

NextLayout ==
    \/ FirstCall
    \/ SquarifiedTreemapAgain

SpecLayout == Init /\ [][NextLayout]_vars

(***************************************************************************)
(* treemap.rs driven directly: one call of layout_row or of squarify_items *)
(***************************************************************************)
\* The areas of the items of a row, in square pixels.
RowAreas == {F32(2, 1), F32(3, 1), F32(8, 1), F32(16, 1)}

RowNodes ==
    <<NewNode("a", <<"root", "a">>, 3), NewNode("b", <<"root", "b">>, 2),
      NewNode("c", <<"root", "c">>, 1)>>

\* The rows of one to three items.
Rows ==
    {[i \in 1..n |-> RowItem(RowNodes[i], areas[i])] :
        <<n, areas>> \in (1..3) \X [1..3 -> RowAreas]}

\* The rows whose areas do not grow, as the items of sorted children do not.
SortedRows ==
    {row \in Rows : \A i \in 1..(Len(row) - 1) : row[i].area >= row[i + 1].area}

\* Rectangles that remain: a wide one, a tall one and a square one, away
\* from the origin.
RowBounds ==
    {LayoutRect(F32(1, 1), F32(2, 1), F32(8, 1), F32(4, 1)),
     LayoutRect(F32(1, 1), F32(2, 1), F32(4, 1), F32(8, 1)),
     LayoutRect(F32(1, 1), F32(2, 1), F32(6, 1), F32(6, 1))}

LayoutRow(row, bounds) ==
    /\ row_call' = Some([function |-> "layout_row", row |-> row,
                         bounds |-> bounds])
    /\ row_output' = Some(layout_row(row, bounds))
    /\ UNCHANGED <<layout_call, cells, previous_cells, appVars, workerVars,
                   treeVars>>

SquarifyItems(items, bounds) ==
    /\ row_call' = Some([function |-> "squarify_items", row |-> items,
                         bounds |-> bounds])
    /\ row_output' = Some([placed |-> squarify_items(items, bounds),
                           remaining |-> bounds])
    /\ UNCHANGED <<layout_call, cells, previous_cells, appVars, workerVars,
                   treeVars>>

\* One call of layout_row, on any row and rectangle.
LayoutRowCall ==
    /\ row_call = None
    /\ \E row \in Rows, bounds \in RowBounds : LayoutRow(row, bounds)

\* One call of squarify_items, on any sorted items and rectangle.
SquarifyItemsCall ==
    /\ row_call = None
    /\ \E items \in SortedRows, bounds \in RowBounds :
          SquarifyItems(items, bounds)

NextRows ==
    \/ LayoutRowCall
    \/ SquarifyItemsCall

SpecRows == Init /\ [][NextRows]_vars

(***************************************************************************)
(* scanner.rs: the worker thread                                           *)
(***************************************************************************)
\* A reading of Instant::elapsed() in seconds; it never runs backwards.
ClockValues == {0, 1}

\* tx.send(msg) with the result dropped: the message is queued if the
\* receiver of this channel still exists and is lost otherwise.
Send(g, msgs) ==
    /\ sent' = [sent EXCEPT ![g] = @ \o msgs]
    /\ chan' = IF scan_receiver = g THEN [chan EXCEPT ![g] = @ \o msgs]
               ELSE chan
    /\ lost' = IF scan_receiver = g THEN lost
               ELSE [lost EXCEPT ![g] = @ + Len(msgs)]

\* Faulty variant: the clamp to [0, 99.9] while scanning is left out.
update_scan_progress_metrics_noclamp(progress, elapsed, finished) ==
    LET total == Max(IF progress.total_estimated_entries = None THEN 1
                     ELSE progress.total_estimated_entries[1], 1)
        raw == Pct(progress.entries_scanned * 100, total)
        clamped == IF finished THEN Pct(100, 1) ELSE raw
        percent == IF progress.progress_percent # None /\ ~finished
                   THEN IF PctLE(clamped, progress.progress_percent[1])
                        THEN progress.progress_percent[1] ELSE clamped
                   ELSE clamped
        remaining_entries ==
            IF finished THEN 0
            ELSE saturating_sub(total, progress.entries_scanned)
        eta == IF finished THEN Some(Pct(0, 1))
               ELSE IF progress.entries_scanned = 0 THEN None
               ELSE IF elapsed <= 0 THEN None
               ELSE Some(Pct(remaining_entries * elapsed,
                             progress.entries_scanned))
    IN [progress EXCEPT !.progress_percent = Some(percent),
                        !.remaining_estimated_entries = Some(remaining_entries),
                        !.eta = eta]

\* Faulty variant: the terminal call clamps like any other call.
update_scan_progress_metrics_no100(progress, elapsed, finished) ==
    LET total == Max(IF progress.total_estimated_entries = None THEN 1
                     ELSE progress.total_estimated_entries[1], 1)
        raw == Pct(progress.entries_scanned * 100, total)
        clamped == IF PctLE(Pct(999, 10), raw) THEN Pct(999, 10) ELSE raw
        percent == IF progress.progress_percent # None /\ ~finished
                   THEN IF PctLE(clamped, progress.progress_percent[1])
                        THEN progress.progress_percent[1] ELSE clamped
                   ELSE clamped
        remaining_entries ==
            IF finished THEN 0
            ELSE saturating_sub(total, progress.entries_scanned)
        eta == IF finished THEN Some(Pct(0, 1))
               ELSE IF progress.entries_scanned = 0 THEN None
               ELSE IF elapsed <= 0 THEN None
               ELSE Some(Pct(remaining_entries * elapsed,
                             progress.entries_scanned))
    IN [progress EXCEPT !.progress_percent = Some(percent),
                        !.remaining_estimated_entries = Some(remaining_entries),
                        !.eta = eta]

\* elapsed is what started.elapsed() reads; it is read only when the call is
\* not the terminal one and entries_scanned is not 0.
update_scan_progress_metrics(progress, elapsed, finished) ==
    LET total == Max(IF progress.total_estimated_entries = None THEN 1
                     ELSE progress.total_estimated_entries[1], 1)
        raw == Pct(progress.entries_scanned * 100, total)
        \* percent.clamp(0.0, 99.9); raw is never negative
        clamped == IF finished THEN Pct(100, 1)
                   ELSE IF PctLE(Pct(999, 10), raw) THEN Pct(999, 10) ELSE raw
        percent == IF progress.progress_percent # None /\ ~finished
                   THEN IF PctLE(clamped, progress.progress_percent[1])
                        THEN progress.progress_percent[1] ELSE clamped
                   ELSE clamped
        remaining_entries ==
            IF finished THEN 0
            ELSE saturating_sub(total, progress.entries_scanned)
        \* entries_per_second = entries_scanned / elapsed is positive here
        eta == IF finished THEN Some(Pct(0, 1))
               ELSE IF progress.entries_scanned = 0 THEN None
               ELSE IF elapsed <= 0 THEN None
               ELSE Some(Pct(remaining_entries * elapsed,
                             progress.entries_scanned))
    IN [progress EXCEPT !.progress_percent = Some(percent),
                        !.remaining_estimated_entries = Some(remaining_entries),
                        !.eta = eta]

\* Faulty variant: the root entry is not counted.
CountEntryBelowRoot(progress, item) ==
    IF item.rel = <<>> THEN progress
    ELSE [progress EXCEPT !.entries_scanned = saturating_add(@, 1),
                          !.current_path = Some(DisplayPath(item.rel))]

\* The counters after an Ok(entry) below the root, before the file limit is
\* looked at: the two walks count alike.
CountEntry(progress, item) ==
    [progress EXCEPT !.entries_scanned = saturating_add(@, 1),
                     !.current_path = Some(DisplayPath(item.rel))]

\* Faulty variant: the walk stops at the file that would reach the limit.
FileLimitEarly(config, progress) ==
    /\ config.max_files # None
    /\ progress.files_scanned + 1 >= config.max_files[1]

\* Faulty variant: the limit is compared with > instead of >=.
FileLimitLate(config, progress) ==
    /\ config.max_files # None
    /\ progress.files_scanned > config.max_files[1]

\* "if let Some(max_files) ... if progress.files_scanned as usize >= max_files"
AtFileLimit(config, progress) ==
    /\ config.max_files # None
    /\ progress.files_scanned >= config.max_files[1]

\* Faulty variant: reaching the limit is also counted as a warning.
TruncateWithWarning(progress) ==
    [progress EXCEPT !.truncated = TRUE, !.warnings = saturating_add(@, 1)]

\* "progress.truncated = true" before the break
Truncate(progress) == [progress EXCEPT !.truncated = TRUE]

\* "entries_scanned % config.progress_interval.max(1) as u64 == 0"
AtInterval(config, progress) ==
    progress.entries_scanned % Max(config.progress_interval, 1) = 0

\* root_path.exists()
RootExists(root_kind) == root_kind # "missing"

\* Faulty variant: the second check is left out.
AnyRootIsDir(root_kind) == TRUE

\* root_path.is_dir()
RootIsDir(root_kind) == root_kind = "dir"

\* run_scan_pipeline up to the first walker: the two checks of the root, and
\* the state estimate_total_entries starts from.
RunScanPipeline(g, walks) ==
    LET w == workers[g] IN
    /\ w.pc = "spawned"
    /\ \E root_kind \in RootKinds :
          IF ~RootExists(root_kind)
          THEN workers' = [workers EXCEPT ![g] =
                   [w EXCEPT !.pc = "returned",
                             !.root_kind = root_kind,
                             !.result = FinishedErr(
                                 <<"Directory does not exist: ", RootPath>>)]]
          ELSE IF ~RootIsDir(root_kind)
          THEN workers' = [workers EXCEPT ![g] =
                   [w EXCEPT !.pc = "returned",
                             !.root_kind = root_kind,
                             !.result = FinishedErr(
                                 <<"Path is not a directory: ", RootPath>>)]]
          ELSE \E walk \in (IF root_kind = "dir" THEN walks
                             ELSE {<<Item("file", <<>>, 1, TRUE)>>}) :
                  workers' = [workers EXCEPT ![g] =
                      [w EXCEPT !.pc = "counting",
                                !.root_kind = root_kind,
                                !.progress = DefaultProgress("Counting"),
                                !.listing = walk,
                                !.walk = LimitDepth(walk, Max(w.config.max_depth, 1))]]
    /\ UNCHANGED <<chan, sent, lost, appVars, treeVars, layoutVars>>

\* One iteration of the loop of estimate_total_entries.
EstimateEntry(g) ==
    LET w == workers[g]
        item == Head(w.walk)
        counted == CountEntry(w.progress, item)
    IN
    /\ w.pc = "counting"
    /\ w.walk # <<>>
    /\ IF item.kind = "err"
       THEN LET progress == [w.progress EXCEPT !.warnings = saturating_add(@, 1)]
            IN /\ workers' = [workers EXCEPT ![g] =
                      [w EXCEPT !.progress = progress, !.walk = Tail(w.walk)]]
               /\ Send(g, IF AtInterval(w.config, progress)
                          THEN <<Progress(progress)>> ELSE <<>>)
       ELSE IF Len(item.rel) = 0
       THEN \* continue
            /\ workers' = [workers EXCEPT ![g] =
                   [w EXCEPT !.progress = counted, !.walk = Tail(w.walk)]]
            /\ Send(g, <<>>)
       ELSE IF item.kind = "dir"
       THEN LET progress == [counted EXCEPT
                                !.directories_scanned = saturating_add(@, 1)]
            IN /\ workers' = [workers EXCEPT ![g] =
                      [w EXCEPT !.progress = progress, !.walk = Tail(w.walk)]]
               /\ Send(g, IF AtInterval(w.config, progress)
                          THEN <<Progress(progress)>> ELSE <<>>)
       ELSE IF AtFileLimit(w.config, counted)
       THEN \* break
            /\ workers' = [workers EXCEPT ![g] =
                   [w EXCEPT !.progress = Truncate(counted),
                             !.walk = <<>>]]
            /\ Send(g, <<>>)
       ELSE LET progress == [counted EXCEPT
                                !.files_scanned = saturating_add(@, 1)]
            IN /\ workers' = [workers EXCEPT ![g] =
                      [w EXCEPT !.progress = progress, !.walk = Tail(w.walk)]]
               /\ Send(g, IF AtInterval(w.config, progress)
                          THEN <<Progress(progress)>> ELSE <<>>)
    /\ UNCHANGED <<appVars, treeVars, layoutVars>>

\* Faulty variant: the count is taken as it is.
EstimatedTotalUnclamped(progress) == progress.entries_scanned

\* "progress.entries_scanned.max(1)"
EstimatedTotal(progress) == Max(progress.entries_scanned, 1)

\* Faulty variant: a send that fails ends the pipeline with an error
\* ("tx.send(..).map_err(..)?").
PropagateSendError(g, next) ==
    IF scan_receiver = g THEN next
    ELSE [next EXCEPT !.pc = "returned",
                      !.result = FinishedErr(<<"receiver dropped">>)]

\* "let _ = tx.send(..)": whether the send failed is not looked at, and the
\* worker goes on to next.
IgnoreSendError(g, next) == next

\* The end of estimate_total_entries and the start of scan_directory: the
\* last Counting message, then the root node, the Scanning progress and the
\* second walker.
EstimateDone(g, quiet) ==
    LET w == workers[g]
        estimated_total_entries == EstimatedTotal(w.progress)
        progress == [w.progress EXCEPT
                        !.total_estimated_entries = Some(estimated_total_entries)]
    IN
    /\ w.pc = "counting"
    /\ w.walk = <<>>
    /\ \E walk \in SecondWalks(quiet, w.listing) :
       workers' = [workers EXCEPT ![g] = IgnoreSendError(g,
           [w EXCEPT !.pc = "scanning",
                     !.estimated_total_entries = estimated_total_entries,
                     !.root = NewNode("root", RootPath, 0),
                     !.warnings = <<>>,
                     !.progress =
                         [DefaultProgress("Scanning") EXCEPT
                             !.total_estimated_entries =
                                 Some(Max(estimated_total_entries, 1)),
                             !.progress_percent = Some(Pct(0, 1))],
                     !.clock = 0,
                     !.listing = walk,
                     !.walk = LimitDepth(walk, Max(w.config.max_depth, 1))])]
    /\ Send(g, <<Progress(progress)>>)
    /\ UNCHANGED <<appVars, treeVars, layoutVars>>

\* format_walkdir_error for an error that carries a path.
format_walkdir_error(rel) == <<"Could not access", DisplayPath(rel)>>

\* Faulty variant: a metadata failure is counted and not recorded.
CountMetadataFailureOnly(warnings, rel) == warnings

\* "warnings.push(format!("Could not read metadata for {}: {}", ...))"
RecordMetadataFailure(warnings, rel) ==
    Append(warnings, <<"Could not read metadata for", DisplayPath(rel)>>)

\* The message a loop iteration of scan_directory ends with, if any.
ScanEmit(g, w, progress, elapsed) ==
    LET due == AtInterval(w.config, progress)
        measured == update_scan_progress_metrics(progress, elapsed, FALSE)
        after == IF due THEN measured ELSE progress
    IN [progress |-> after,
        msgs |-> IF due THEN <<Progress(measured)>> ELSE <<>>]

\* One iteration of the loop of scan_directory.
ScanEntry(g) ==
    LET w == workers[g]
        item == Head(w.walk)
        counted == CountEntry(w.progress, item)
    IN
    /\ w.pc = "scanning"
    /\ w.walk # <<>>
    /\ \E elapsed \in {t \in ClockValues : t >= w.clock} :
       IF item.kind = "err"
       THEN LET out == ScanEmit(g, w,
                           [w.progress EXCEPT !.warnings = saturating_add(@, 1)],
                           elapsed)
            IN /\ workers' = [workers EXCEPT ![g] =
                      [w EXCEPT !.progress = out.progress,
                                !.warnings =
                                    Append(@, format_walkdir_error(item.rel)),
                                !.clock = elapsed,
                                !.walk = Tail(w.walk)]]
               /\ Send(g, out.msgs)
       ELSE IF Len(item.rel) = 0
       THEN \* continue
            /\ workers' = [workers EXCEPT ![g] =
                   [w EXCEPT !.progress = counted, !.clock = elapsed,
                             !.walk = Tail(w.walk)]]
            /\ Send(g, <<>>)
       ELSE IF item.kind = "dir"
       THEN LET out == ScanEmit(g, w,
                           [counted EXCEPT
                               !.directories_scanned = saturating_add(@, 1)],
                           elapsed)
            IN /\ workers' = [workers EXCEPT ![g] =
                      [w EXCEPT !.progress = out.progress,
                                !.root = insert_relative(@, item.rel, 0),
                                !.clock = elapsed,
                                !.walk = Tail(w.walk)]]
               /\ Send(g, out.msgs)
       ELSE IF AtFileLimit(w.config, counted)
       THEN \* break
            /\ workers' = [workers EXCEPT ![g] =
                   [w EXCEPT !.progress = Truncate(counted),
                             !.clock = elapsed,
                             !.walk = <<>>]]
            /\ Send(g, <<>>)
       ELSE LET filed == [counted EXCEPT
                             !.files_scanned = saturating_add(@, 1)]
                out == ScanEmit(g, w,
                           IF item.meta_ok THEN filed
                           ELSE [filed EXCEPT !.warnings = saturating_add(@, 1)],
                           elapsed)
            IN /\ workers' = [workers EXCEPT ![g] =
                      [w EXCEPT !.progress = out.progress,
                                !.warnings =
                                    IF item.meta_ok THEN @
                                    ELSE RecordMetadataFailure(@, item.rel),
                                !.root = insert_relative(@, item.rel,
                                             IF item.meta_ok THEN item.size ELSE 0),
                                !.clock = elapsed,
                                !.walk = Tail(w.walk)]]
               /\ Send(g, out.msgs)
    /\ UNCHANGED <<appVars, treeVars, layoutVars>>

\* Faulty variant: the result is returned without the terminal Progress
\* message.
ScanDoneSilent(g) ==
    LET w == workers[g]
        root == sort_children_by_size_desc(compute_total_size(w.root))
        progress == w.progress
        stats == [entries_scanned |-> progress.entries_scanned,
                  files_scanned |-> progress.files_scanned,
                  directories_scanned |-> progress.directories_scanned,
                  warnings |-> progress.warnings,
                  truncated |-> progress.truncated,
                  estimated_total_entries |-> progress.total_estimated_entries,
                  elapsed |-> "ZERO"]
    IN
    /\ w.pc = "scanning"
    /\ w.walk = <<>>
    /\ workers' = [workers EXCEPT ![g] =
           [w EXCEPT !.pc = "returned",
                     !.root = root,
                     !.result = FinishedOk([root |-> root, stats |-> stats,
                                            warnings |-> w.warnings])]]
    /\ Send(g, <<>>)
    /\ UNCHANGED <<appVars, treeVars, layoutVars>>

\* The end of scan_directory: the tree is totalled and sorted, the terminal
\* Progress message is sent and the ScanResult is returned.
ScanDone(g) ==
    LET w == workers[g]
        root == sort_children_by_size_desc(compute_total_size(w.root))
        progress == update_scan_progress_metrics(w.progress, w.clock, TRUE)
        stats == [entries_scanned |-> progress.entries_scanned,
                  files_scanned |-> progress.files_scanned,
                  directories_scanned |-> progress.directories_scanned,
                  warnings |-> progress.warnings,
                  truncated |-> progress.truncated,
                  estimated_total_entries |-> progress.total_estimated_entries,
                  elapsed |-> "ZERO"]
    IN
    /\ w.pc = "scanning"
    /\ w.walk = <<>>
    /\ workers' = [workers EXCEPT ![g] =
           [w EXCEPT !.pc = "returned",
                     !.root = root,
                     !.progress = progress,
                     !.result = FinishedOk([root |-> root, stats |-> stats,
                                            warnings |-> w.warnings])]]
    /\ Send(g, <<Progress(progress)>>)
    /\ UNCHANGED <<appVars, treeVars, layoutVars>>

\* Faulty variant: only a successful result is sent ("if let Ok(result)").
SendFinishedOkOnly(g) ==
    LET w == workers[g]
        result == IF w.result.ok
                  THEN [w.result EXCEPT !.result.stats.elapsed = "elapsed"]
                  ELSE w.result
    IN
    /\ w.pc = "returned"
    /\ workers' = [workers EXCEPT ![g] = [w EXCEPT !.pc = "done",
                                                   !.result = result]]
    /\ Send(g, IF result.ok THEN <<result>> ELSE <<>>)
    /\ UNCHANGED <<appVars, treeVars, layoutVars>>

\* The end of the closure of spawn_scan: the elapsed time is filled in, the
\* Finished message is sent and the thread ends, which drops the sender.
SendFinished(g) ==
    LET w == workers[g]
        result == IF w.result.ok
                  THEN [w.result EXCEPT !.result.stats.elapsed = "elapsed"]
                  ELSE w.result
    IN
    /\ w.pc = "returned"
    /\ workers' = [workers EXCEPT ![g] = [w EXCEPT !.pc = "done",
                                                   !.result = result]]
    /\ Send(g, <<result>>)
    /\ UNCHANGED <<appVars, treeVars, layoutVars>>

(***************************************************************************)
(* app.rs: the consumer                                                    *)
(***************************************************************************)
\* Faulty variant: a receiver that is still held is kept.
KeepReceiver(held, spawned) == IF held # 0 THEN held ELSE spawned

\* "self.scan_receiver = Some(spawn_scan(...))"
ReplaceReceiver(held, spawned) == spawned

\* Faulty variant: the message of an earlier failure is kept.
KeepErrorMessage(held) == held

\* "self.error_message = None"
ResetErrorMessage(held) == None

\* start_scan, which ends with spawn_scan(root_path, self.scan_config.clone()):
\* a new channel and a new thread.  A receiver that goes out of scope is
\* dropped, and with it the messages still queued on it.  config is what
\* the controls of the top bar hold when the scan is started.
StartScan(config) ==
    LET spawned == scan_generation + 1 IN
    /\ scan_generation < MaxScans
    /\ scan_generation' = spawned
    /\ mode' = "Scanning"
    /\ error_message' = ResetErrorMessage(error_message)
    /\ scan_result' = None
    /\ scan_progress' = DefaultProgress("Counting")
    /\ treemap_cache' = None
    /\ frame' = None
    /\ scan_config' = config
    /\ scan_receiver' = ReplaceReceiver(scan_receiver, spawned)
    /\ workers' = [workers EXCEPT ![spawned] =
                      [NoWorker EXCEPT !.pc = "spawned", !.config = config]]
    /\ chan' = [g \in Generations |->
                   IF g # scan_receiver' THEN <<>> ELSE chan[g]]
    /\ UNCHANGED <<sent, lost, treemap_depth, max_render_nodes,
                   min_cell_pixels, treeVars, layoutVars>>

\* The sender of a channel is dropped when the worker's thread ends.
SenderDropped(g) == workers[g].pc \in {"done", "died"}

\* Faulty variant: a Finished message is not told from a Progress message.
FirstFinishedNone(queue) == 0

\* The index in the queue of the first Finished message, 0 if there is none.
FirstFinished(queue) ==
    IF \E i \in 1..Len(queue) : queue[i].type = "Finished"
    THEN CHOOSE i \in 1..Len(queue) :
            /\ queue[i].type = "Finished"
            /\ \A j \in 1..(i - 1) : queue[j].type # "Finished"
    ELSE 0

Disconnected == <<"Scan worker disconnected unexpectedly">>

\* Faulty variant: a disconnected channel is taken for an empty one.
final_result_no_disconnect(queue, sender_dropped) ==
    IF FirstFinished(queue) # 0 THEN Some(queue[FirstFinished(queue)])
    ELSE None

\* final_result at the end of the try_recv loop over the queue: the Finished
\* message if one is queued; else, try_recv having emptied the queue, the
\* synthetic error if the sender is gone, and nothing if it is not.
final_result(queue, sender_dropped) ==
    IF FirstFinished(queue) # 0 THEN Some(queue[FirstFinished(queue)])
    ELSE IF sender_dropped THEN Some(FinishedErr(Disconnected))
    ELSE None

\* poll_scan_messages.  The loop takes what is queued up to the first
\* Finished message; every Progress message taken replaces scan_progress.
PollScanMessages ==
    LET queue == IF scan_receiver = 0 THEN <<>> ELSE chan[scan_receiver]
        finished == FirstFinished(queue)
        taken == IF finished # 0 THEN finished ELSE Len(queue)
        progress == SelectSeq(SubSeq(queue, 1, taken),
                              LAMBDA m : m.type = "Progress")
        final == IF scan_receiver = 0 THEN None
                 ELSE final_result(queue, SenderDropped(scan_receiver))
    IN
    /\ mode = "Scanning"
    /\ scan_progress' = IF progress = <<>> THEN scan_progress
                        ELSE progress[Len(progress)].progress
    /\ IF final # None
       THEN /\ scan_receiver' = 0
            /\ chan' = [g \in Generations |-> <<>>]
            /\ IF final[1].ok
               THEN /\ treemap_depth' =
                           Min(treemap_depth, Max(scan_config.max_depth, 1))
                    /\ scan_result' = Some(final[1].result)
                    /\ mode' = "Ready"
                    /\ treemap_cache' = None
                    /\ UNCHANGED error_message
               ELSE /\ error_message' = Some(final[1].error)
                    /\ mode' = "Error"
                    /\ UNCHANGED <<scan_result, treemap_depth, treemap_cache>>
       ELSE \* ctx.request_repaint_after(80 ms): update will poll again
            /\ chan' = IF scan_receiver = 0 THEN chan
                       ELSE [chan EXCEPT ![scan_receiver] = <<>>]
            /\ UNCHANGED <<scan_receiver, scan_result, error_message, mode,
                           treemap_depth, treemap_cache>>
    /\ UNCHANGED <<scan_generation, scan_config, max_render_nodes,
                   min_cell_pixels, frame, workers, sent, lost, treeVars,
                   layoutVars>>

(***************************************************************************)
(* app.rs: a frame in Ready mode                                           *)
(***************************************************************************)

\* f32::EPSILON, the distance from 1.0 to the next float.
F32Epsilon == Pow2(F32Frac - F32Bits + 1)

\* f32::round of a float that is not negative, as a whole number: to the
\* nearest, halves upwards.
F32RoundWhole(a) == (2 * a + F32Unit) \div (2 * F32Unit)

\* egui::Pos2 and egui::Vec2
Pos2(x, y) == [x |-> x, y |-> y]

\* egui::Rect, which holds its two corners: from_min_size, width, height
RectFromMinSize(min, size) ==
    [min |-> min, max |-> Pos2(F32Add(min.x, size.x), F32Add(min.y, size.y))]
RectWidth(rect) == F32Sub(rect.max.x, rect.min.x)
RectHeight(rect) == F32Sub(rect.max.y, rect.min.y)

\* "canvas_rect.width().round().max(1.0) as u32", and the same of height()
WidthPx(rect) == Max(F32RoundWhole(RectWidth(rect)), 1)
HeightPx(rect) == Max(F32RoundWhole(RectHeight(rect)), 1)

\* "a.distance(b) > f32::EPSILON", the distance being taken exactly.
FartherThanEpsilon(a, b) ==
    (a.x - b.x) * (a.x - b.x) + (a.y - b.y) * (a.y - b.y)
        > F32Epsilon * F32Epsilon

\* "(a - b).abs() > f32::EPSILON"
DiffersByMoreThanEpsilon(a, b) ==
    LET d == F32Sub(a, b) IN (IF d < 0 THEN 0 - d ELSE d) > F32Epsilon

\* Faulty variant: the depth is not compared.
cache_needs_rebuild_ignoring_depth(self, canvas_min, width_px, height_px) ==
    \/ self.treemap_cache = None
    \/ /\ self.treemap_cache # None
       /\ LET cache == self.treemap_cache[1] IN
          \/ cache.scan_generation # self.scan_generation
          \/ cache.max_nodes # self.max_render_nodes
          \/ FartherThanEpsilon(cache.canvas_min, canvas_min)
          \/ cache.width_px # width_px
          \/ cache.height_px # height_px
          \/ DiffersByMoreThanEpsilon(cache.min_cell_pixels,
                                      self.min_cell_pixels)

\* cache_needs_rebuild; self holds the fields of TreeMapApp that it reads.
cache_needs_rebuild(self, canvas_min, width_px, height_px) ==
    \/ self.treemap_cache = None
    \/ /\ self.treemap_cache # None
       /\ LET cache == self.treemap_cache[1] IN
          \/ cache.scan_generation # self.scan_generation
          \/ cache.depth # self.treemap_depth
          \/ cache.max_nodes # self.max_render_nodes
          \/ FartherThanEpsilon(cache.canvas_min, canvas_min)
          \/ cache.width_px # width_px
          \/ cache.height_px # height_px
          \/ DiffersByMoreThanEpsilon(cache.min_cell_pixels,
                                      self.min_cell_pixels)

\* CachedCell of a cell of the layout; the fill colour is left out.
CachedCell(root, cell) ==
    LET node == NodeAt(root, cell.node) IN
    [rect |-> RectFromMinSize(Pos2(cell.rect.x, cell.rect.y),
                              Pos2(cell.rect.w, cell.rect.h)),
     name |-> node.name,
     path |-> node.path,
     size |-> node.size,
     is_dir |-> node.children # <<>>]

\* "for cell in raw_cells": the cells pushed from the i-th raw cell on.  The
\* root's cell and the cells narrower or lower than min_cell are skipped.
RECURSIVE PushedCells(_, _, _, _)
PushedCells(root, raw_cells, i, min_cell) ==
    IF i > Len(raw_cells) THEN <<>>
    ELSE LET cached == CachedCell(root, raw_cells[i])
         IN (IF \/ raw_cells[i].depth = 0
                \/ RectWidth(cached.rect) < min_cell
                \/ RectHeight(cached.rect) < min_cell
             THEN <<>> ELSE <<cached>>)
            \o PushedCells(root, raw_cells, i + 1, min_cell)

\* build_treemap_cache.  The maps of the cell centres are left out; bounds
\* is the rectangle that was handed to squarified_treemap, which the
\* TreemapCache of the source does not keep.
build_treemap_cache(result, canvas_rect, generation, depth, max_nodes, min_cell) ==
    LET bounds == LayoutRect(canvas_rect.min.x, canvas_rect.min.y,
                             RectWidth(canvas_rect), RectHeight(canvas_rect))
    IN [scan_generation |-> generation,
        depth |-> depth,
        max_nodes |-> max_nodes,
        min_cell_pixels |-> min_cell,
        canvas_min |-> canvas_rect.min,
        width_px |-> WidthPx(canvas_rect),
        height_px |-> HeightPx(canvas_rect),
        cells |-> PushedCells(result.root,
                              squarified_treemap(result.root, bounds, depth,
                                                 max_nodes),
                              1, min_cell),
        bounds |-> bounds]

\* What a frame leaves in frame: where the canvas was, whether
\* build_treemap_cache was called and whether the cells were drawn.
Frame(canvas, rebuilt, drew) ==
    [canvas |-> canvas, rebuilt |-> rebuilt, drew |-> drew]

\* render_ready_state, on a frame where the panel offers the space
\* canvas.available at canvas.min and the three controls under the summary
\* hold depth, max_nodes and min_cell when they have been shown.
RenderReadyState(canvas, depth, max_nodes, min_cell) ==
    /\ mode = "Ready"
    /\ IF scan_result = None
       THEN /\ frame' = Some(Frame(canvas, FALSE, FALSE))
            /\ UNCHANGED <<treemap_depth, max_render_nodes, min_cell_pixels,
                           treemap_cache>>
       ELSE /\ treemap_depth' = depth
            /\ max_render_nodes' = max_nodes
            /\ min_cell_pixels' = min_cell
            /\ IF \/ ~(scan_result[1].root.size > 0)
                  \/ canvas.available.x < F32(MinCanvasSide, 1)
                  \/ canvas.available.y < F32(MinCanvasSide, 1)
               THEN /\ frame' = Some(Frame(canvas, FALSE, FALSE))
                    /\ UNCHANGED treemap_cache
               ELSE LET canvas_rect == RectFromMinSize(canvas.min,
                                                      canvas.available)
                        self == [treemap_cache |-> treemap_cache,
                                 scan_generation |-> scan_generation,
                                 treemap_depth |-> depth,
                                 max_render_nodes |-> max_nodes,
                                 min_cell_pixels |-> min_cell]
                        rebuild == cache_needs_rebuild(
                                       self, canvas_rect.min,
                                       WidthPx(canvas_rect),
                                       HeightPx(canvas_rect))
                    IN /\ treemap_cache' =
                             IF rebuild
                             THEN Some(build_treemap_cache(
                                           scan_result[1], canvas_rect,
                                           scan_generation, depth, max_nodes,
                                           min_cell))
                             ELSE treemap_cache
                       /\ frame' = Some(Frame(canvas, rebuild, TRUE))
    /\ UNCHANGED <<mode, scan_receiver, scan_progress, scan_result,
                   error_message, scan_generation, scan_config, workerVars,
                   treeVars, layoutVars>>

\* A worker's thread ends before its time, without a Finished message, and
\* its locals are gone: no path of scanner.rs does this, it is the fault that
\* the Disconnected arm of poll_scan_messages is there for.
WorkerDies(g) ==
    /\ workers[g].pc \in {"spawned", "counting", "scanning", "returned"}
    /\ workers' = [workers EXCEPT ![g] = [NoWorker EXCEPT !.pc = "died"]]
    /\ UNCHANGED <<chan, sent, lost, appVars, treeVars, layoutVars>>

\* The worker of one scan, from spawn to the end of its thread, on one of
\* the directory trees walks, left alone during the scan or not.
WorkerStep(g, walks, quiet) ==
    \/ RunScanPipeline(g, walks)
    \/ EstimateEntry(g)
    \/ EstimateDone(g, quiet)
    \/ ScanEntry(g)
    \/ ScanDone(g)
    \/ SendFinished(g)

\* One scan of any directory tree of at most MaxEntries entries.
Next ==
    \/ \E config \in Configs : scan_generation = 0 /\ StartScan(config)
    \/ WorkerStep(1, ScanWalks, FALSE)

Spec == Init /\ [][Next]_vars

\* The consumer and its workers: scans of an empty directory or of a
\* directory with one file, started at any time, polled at any time, with
\* workers that may die.
AppWalks == {<<RootEntry>>, <<RootEntry, Item("file", <<"a">>, 1, TRUE)>>}
AppConfigs == {ScanConfig(1, None, 1)}

NextApp ==
    \/ \E config \in AppConfigs : StartScan(config)
    \/ PollScanMessages
    \/ \E g \in Generations : WorkerStep(g, AppWalks, TRUE)
    \/ \E g \in Generations : WorkerDies(g)

SpecApp == Init /\ [][NextApp]_vars

\* The consumer with its frames in Ready mode: scans of an empty directory
\* or of one with files on two levels, started when no scan is running, on
\* canvases that differ by less than a pixel, by more and in their origin,
\* and on one too small to draw on.
FrameWalks ==
    {<<RootEntry>>,
     <<RootEntry, Item("dir", <<"a">>, 0, TRUE),
       Item("file", <<"a", "b">>, 2, TRUE), Item("file", <<"b">>, 1, TRUE)>>}
FrameConfigs == {ScanConfig(2, None, 1)}
FrameCanvases ==
    {[min |-> Pos2(0, 0), available |-> Pos2(F32(8, 1), F32(8, 1))],
     [min |-> Pos2(0, 0), available |-> Pos2(F32(33, 4), F32(8, 1))],
     [min |-> Pos2(F32(1, 1), 0), available |-> Pos2(F32(12, 1), F32(8, 1))],
     [min |-> Pos2(0, 0), available |-> Pos2(F32(2, 1), F32(8, 1))]}
FrameBudgets == {MinRenderNodes, DefaultMaxRenderNodes}
FrameMinCells == {F32(1, 1), F32(1, 1) + F32Epsilon}

\* The values a frame may leave in the depth control: the one it held, or
\* one of its range 1..=scan_config.max_depth.max(1).
FrameDepths == {treemap_depth} \cup 1..Max(scan_config.max_depth, 1)

\* One pointer drags one thing: between two frames one of the three
\* controls changes, or the window and with it the canvas, or nothing.
OneChange(canvas, depth, max_nodes, min_cell) ==
    Cardinality({c \in {"canvas", "depth", "max_nodes", "min_cell"} :
                    \/ c = "canvas" /\ frame # None /\ canvas # frame[1].canvas
                    \/ c = "depth" /\ depth # treemap_depth
                    \/ c = "max_nodes" /\ max_nodes # max_render_nodes
                    \/ c = "min_cell" /\ min_cell # min_cell_pixels}) <= 1

NextFrames ==
    \/ \E config \in FrameConfigs : mode # "Scanning" /\ StartScan(config)
    \/ PollScanMessages
    \/ \E g \in Generations : WorkerStep(g, FrameWalks, TRUE)
    \/ \E canvas \in FrameCanvases, depth \in FrameDepths,
          max_nodes \in FrameBudgets, min_cell \in FrameMinCells :
          /\ OneChange(canvas, depth, max_nodes, min_cell)
          /\ RenderReadyState(canvas, depth, max_nodes, min_cell)

SpecFrames == Init /\ [][NextFrames]_vars

\* update runs once per frame, and a poll that ends without a result asks
\* for another frame: a poll that can run does run.
FairSpecApp == SpecApp /\ WF_vars(PollScanMessages)

\* The consumer and workers that do not die: scans of a directory with two
\* files and a limit of one file, started and polled at any time.
\* A thread that can take a step does take one.
SupersededWalks ==
    {<<RootEntry, Item("file", <<"a">>, 1, TRUE),
       Item("file", <<"b">>, 2, TRUE)>>}
SupersededConfigs == {ScanConfig(1, Some(1), 2)}

NextSuperseded ==
    \/ \E config \in SupersededConfigs : StartScan(config)
    \/ PollScanMessages
    \/ \E g \in Generations : WorkerStep(g, SupersededWalks, TRUE)

SpecSuperseded == Init /\ [][NextSuperseded]_vars

FairSpecSuperseded ==
    SpecSuperseded
    /\ \A g \in Generations : WF_vars(WorkerStep(g, SupersededWalks, TRUE))

(***************************************************************************)
(* Properties of the tree model                                            *)
(***************************************************************************)
\* The path of the node a call names: the "." components are skipped.
Target(relative_path) ==
    RootPath \o SelectSeq(Components(relative_path), LAMBDA c : c # ".")

\* The calls, in order, that set the size of the node at path.
WritesTo(path) ==
    SelectSeq(calls, LAMBDA c : Target(c[1]) = path /\ Target(c[1]) # RootPath)

\* The tree that the calls build when they are made in the order given.
BuildTree(order) ==
    LET RECURSIVE after(_)
        after(n) == IF n = 0 THEN NewNode("root", RootPath, 0)
                    ELSE insert_relative(after(n - 1), calls[order[n]][1],
                                         calls[order[n]][2])
    IN after(Len(calls))

PlainSum(children) ==
    LET RECURSIVE total(_)
        total(n) == IF n = 0 THEN 0 ELSE total(n - 1) + children[n].size
    IN total(Len(children))

\* C9: after compute_total_size every node with a child, at every depth, has
\* the saturating sum of its children's sizes as its size, and every
\* childless node still has the size it was given: the leaf_size of the last
\* insert_relative call that named it (0 for the root, which no call names).
C9_Aggregation ==
    stage = "totalled" =>
        \A n \in NodesOf(tree) :
            IF n.children # <<>>
            THEN n.size = IF PlainSum(n.children) > SizeMax THEN SizeMax
                          ELSE PlainSum(n.children)
            ELSE LET w == WritesTo(n.path)
                 IN n.size = IF w = <<>> THEN 0 ELSE w[Len(w)][2]

\* C9's case: a directory below the root whose children's sizes add up to
\* more than the bound, next to a childless node of non-zero size.
C9_Witness ==
    /\ stage = "totalled"
    /\ \E n \in NodesOf(tree) :
          /\ n.path # RootPath
          /\ Len(n.children) = 2
          /\ PlainSum(n.children) > SizeMax
    /\ \E n \in NodesOf(tree) : n.children = <<>> /\ n.size = 1

\* C10 as stated: whatever the calls are, making them in any other order
\* and finalizing gives the same paths with the same sizes.
C10_AnyMultiset ==
    stage = "totalled" =>
        \A order \in Permutations(1..Len(calls)) :
            PathSizes(compute_total_size(BuildTree(order))) = PathSizes(tree)

\* A childless node of the tree that two calls name with different sizes:
\* its size is that of whichever call is made last.
RewrittenLeaf ==
    \E n \in NodesOf(tree) :
        /\ n.children = <<>>
        /\ \E i, j \in 1..Len(calls) :
              /\ Target(calls[i][1]) = n.path
              /\ Target(calls[j][1]) = n.path
              /\ calls[i][2] # calls[j][2]

\* C10 amended: unless two of the calls name the same childless node with
\* different sizes, making the calls in any other order and finalizing gives
\* the same set of paths and the same size at every path.
C10_OrderIndependent ==
    (stage = "totalled" /\ ~RewrittenLeaf) =>
        \A order \in Permutations(1..Len(calls)) :
            PathSizes(compute_total_size(BuildTree(order))) = PathSizes(tree)

\* C10's case: three calls, one naming a node below an earlier call's node,
\* whose reverse order builds a different tree (the children come in another
\* order) with the same paths and sizes.
C10_Witness ==
    /\ stage = "totalled"
    /\ Len(calls) = 3
    /\ \E i, j \in 1..3 : /\ i < j
                          /\ Len(Target(calls[i][1])) = 2
                          /\ Len(Target(calls[j][1])) = 3
                          /\ IsPrefix(Target(calls[i][1]), Target(calls[j][1]))
    /\ ~RewrittenLeaf
    /\ tree.size > 1
    /\ LET other == compute_total_size(BuildTree([i \in 1..3 |-> 4 - i]))
       IN other # tree /\ PathSizes(other) = PathSizes(tree)

(***************************************************************************)
(* Properties of the scanner worker                                        *)
(***************************************************************************)
Spawned == {g \in Generations : workers[g].pc # "unspawned"}

Last(seq) == seq[Len(seq)]

ProgressOf(g) == SelectSeq(sent[g], LAMBDA m : m.type = "Progress")
ScanningOf(g) ==
    SelectSeq(sent[g], LAMBDA m : m.type = "Progress"
                                  /\ m.progress.phase = "Scanning")

\* Every node with a child has the saturating sum of its children's sizes.
IsTotalled(node) ==
    \A n \in NodesOf(node) : n.children # <<>> => n.size = SumSat(n.children)

\* Every children list is in non-increasing order of size.
IsSortedDesc(node) ==
    \A n \in NodesOf(node) :
        \A i \in 1..(Len(n.children) - 1) :
            n.children[i].size >= n.children[i + 1].size

\* C1: what a worker has handed to its channel is at all times a run of
\* Progress messages, followed by one Finished message exactly when its
\* thread has ended and by nothing after it; a Finished(Ok) carries a
\* totalled and sorted tree, a Finished(Err) a text.
C1_Delivery ==
    \A g \in Spawned :
        LET w == workers[g]
            n == Len(sent[g])
        IN /\ \A i \in 1..(n - 1) : sent[g][i].type = "Progress"
           /\ IF w.pc = "done"
              THEN /\ n >= 1
                   /\ Last(sent[g]).type = "Finished"
                   /\ IF Last(sent[g]).ok
                      THEN /\ IsTotalled(Last(sent[g]).result.root)
                           /\ IsSortedDesc(Last(sent[g]).result.root)
                           /\ Last(sent[g]).error = <<>>
                      ELSE /\ Last(sent[g]).result = None
                           /\ Last(sent[g]).error # <<>>
              ELSE \A i \in 1..n : sent[g][i].type = "Progress"

\* C1's case: a finished scan that sent several Progress messages and then
\* Finished(Ok) with a tree of more than one level.
C1_Witness ==
    /\ workers[1].pc = "done"
    /\ Len(sent[1]) >= 4
    /\ Last(sent[1]).ok
    /\ \E n \in NodesOf(Last(sent[1]).result.root) :
          n.path # RootPath /\ n.children # <<>>

\* C3: when the root path is missing or is not a directory the worker builds
\* no tree and hands over nothing but Finished(Err) with a text that names
\* the path.
C3_FatalRoot ==
    \A g \in Spawned :
        LET w == workers[g] IN
        (w.pc # "spawned" /\ w.root_kind # "dir") =>
            /\ w.pc \in {"returned", "done"}
            /\ w.root = NoWorker.root
            /\ ~w.result.ok
            /\ w.result.result = None
            /\ Len(w.result.error) = 2 /\ w.result.error[2] = RootPath
            /\ sent[g] = IF w.pc = "done" THEN <<w.result>> ELSE <<>>

\* C3's case: a scan of a path that is a file, and one of a missing path,
\* has ended.
C3_Witness ==
    /\ workers[1].pc = "done"
    /\ workers[1].root_kind = "file"
    /\ sent[1] = <<FinishedErr(<<"Path is not a directory: ", RootPath>>)>>

\* C5: in the stream of one scan the progress_percent values never decrease.
C5_PercentMonotone ==
    \A g \in Spawned :
        LET msgs == ScanningOf(g) IN
        \A i, j \in 1..Len(msgs) :
            i < j => PctLE(msgs[i].progress.progress_percent[1],
                           msgs[j].progress.progress_percent[1])

\* C5's case: a finished scan with three Scanning messages of three different
\* percentages, one of them sent when more entries had been scanned than
\* were estimated.
C5_Witness ==
    LET msgs == ScanningOf(1) IN
    /\ workers[1].pc = "done"
    /\ Len(msgs) >= 3
    /\ ~PctEq(msgs[1].progress.progress_percent[1],
              msgs[2].progress.progress_percent[1])
    /\ ~PctEq(msgs[2].progress.progress_percent[1],
              msgs[3].progress.progress_percent[1])
    /\ \E i \in 1..(Len(msgs) - 1) :
          msgs[i].progress.entries_scanned
              > msgs[i].progress.total_estimated_entries[1]

\* C6: the Progress message that scan_directory sends last carries exactly
\* 100, and every Scanning message before it a value from 0 to 99.9.
C6_PercentRange ==
    \A g \in Spawned :
        LET msgs == ScanningOf(g)
            ended == workers[g].pc \in {"returned", "done"}
        IN \A i \in 1..Len(msgs) :
              LET percent == msgs[i].progress.progress_percent[1] IN
              IF ended /\ i = Len(msgs)
              THEN PctEq(percent, Pct(100, 1))
              ELSE PctLE(Pct(0, 1), percent) /\ PctLE(percent, Pct(999, 10))

\* C6's case: a successful scan whose stream has a Scanning message sent when
\* entries_scanned had reached the estimate, and one sent when it had
\* passed it, both before the last.
C6_Witness ==
    LET msgs == ScanningOf(1) IN
    /\ workers[1].pc = "done"
    /\ Last(sent[1]).ok
    /\ \E i, j \in 1..(Len(msgs) - 1) :
          /\ msgs[i].progress.entries_scanned
                = msgs[i].progress.total_estimated_entries[1]
          /\ msgs[j].progress.entries_scanned
                > msgs[j].progress.total_estimated_entries[1]

\* The files of a listing: every entry that is not a directory.
Files(walk) == SelectSeq(walk, LAMBDA x : x.kind = "file")

\* C7 as stated: with max_files = N, a scan of a tree that holds more than N
\* files ends with files_scanned <= N and truncated.
C7_AnyDepth ==
    \A g \in Spawned :
        LET w == workers[g] IN
        (/\ w.pc = "done" /\ w.result.ok
         /\ w.config.max_files # None
         /\ Len(Files(w.listing)) > w.config.max_files[1]) =>
            /\ w.result.result.stats.files_scanned <= w.config.max_files[1]
            /\ w.result.result.stats.truncated

\* C7 amended: with max_files = N, a scan of a tree that holds more than N
\* files within max_depth levels below the root ends with files_scanned <= N
\* and truncated.
C7_TruncationBound ==
    \A g \in Spawned :
        LET w == workers[g] IN
        (/\ w.pc = "done" /\ w.result.ok
         /\ w.config.max_files # None
         /\ Len(Files(LimitDepth(w.listing, Max(w.config.max_depth, 1))))
               > w.config.max_files[1]) =>
            /\ w.result.result.stats.files_scanned <= w.config.max_files[1]
            /\ w.result.result.stats.truncated

\* C7's case: a scan with a file limit has ended on a tree with more files
\* than the limit within the depth limit, some of them below a directory.
C7_Witness ==
    LET w == workers[1] IN
    /\ w.pc = "done" /\ w.result.ok
    /\ w.config.max_files # None
    /\ w.config.max_depth = 2
    /\ Len(Files(LimitDepth(w.listing, 2))) > w.config.max_files[1]
    /\ \E i \in 1..Len(w.listing) :
          w.listing[i].kind = "file" /\ Len(w.listing[i].rel) = 2
    /\ w.result.result.stats.files_scanned = w.config.max_files[1]

\* The entries of a walk that come before its (n+1)-th file.
RECURSIVE BeforeFile(_, _)
BeforeFile(walk, n) ==
    IF walk = <<>> THEN <<>>
    ELSE IF Head(walk).kind = "file"
         THEN IF n = 0 THEN <<>>
              ELSE <<Head(walk)>> \o BeforeFile(Tail(walk), n - 1)
         ELSE <<Head(walk)>> \o BeforeFile(Tail(walk), n)

\* The entries of a walk that fail: walk errors and unreadable metadata.
Failures(walk) ==
    SelectSeq(walk, LAMBDA x : x.kind = "err"
                               \/ (x.kind = "file" /\ ~x.meta_ok))

\* C8: when the file limit stops the second walk, the worker still sends
\* Finished(Ok) with a totalled and sorted tree; truncated is set on the last
\* Progress message and in the stats; and the warning counter and the
\* warnings list hold the failures of the entries before the stop, no more.
C8_TruncationIsNoError ==
    \A g \in Spawned :
        LET w == workers[g]
            walk == LimitDepth(w.listing, Max(w.config.max_depth, 1))
        IN (/\ w.pc = "done"
            /\ w.root_kind = "dir"
            /\ w.config.max_files # None
            /\ Len(Files(walk)) > w.config.max_files[1]) =>
               LET result == Last(sent[g]).result
                   failed == Failures(BeforeFile(walk, w.config.max_files[1]))
               IN /\ Last(sent[g]).type = "Finished"
                  /\ Last(sent[g]).ok
                  /\ IsTotalled(result.root)
                  /\ IsSortedDesc(result.root)
                  /\ Last(ProgressOf(g)).progress.truncated
                  /\ result.stats.truncated
                  /\ result.stats.warnings = Len(failed)
                  /\ Len(result.warnings) = Len(failed)

\* C8's case: a truncated scan has ended that had met a failing entry and
\* had put a directory and a file into the tree before the limit stopped it.
C8_Witness ==
    LET w == workers[1] IN
    /\ w.pc = "done" /\ w.result.ok
    /\ w.result.result.stats.truncated
    /\ w.result.result.stats.warnings = 1
    /\ w.result.result.stats.files_scanned = 1
    /\ w.result.result.root.size > 0

(***************************************************************************)
(* Properties of the consumer                                              *)
(***************************************************************************)
\* A step that changes what the consumer holds without starting a scan: a
\* poll that took something.
PollTook ==
    /\ scan_generation' = scan_generation
    /\ <<mode, scan_progress, scan_result, error_message>>'
          # <<mode, scan_progress, scan_result, error_message>>

\* The worker of the scan started last has handed progress to its channel.
SentByLatest(progress) ==
    \E i \in 1..Len(sent[scan_generation]) :
        /\ sent[scan_generation][i].type = "Progress"
        /\ sent[scan_generation][i].progress = progress

\* C2: the consumer never holds the receiver of any scan but the one started
\* last, and whatever a poll puts into scan_progress, scan_result,
\* error_message or mode comes from the worker of the scan started last: a
\* Progress or Finished message that worker has sent, or its disconnection.
C2_StaleIgnored ==
    /\ [](scan_receiver \in {0, scan_generation})
    /\ [][PollTook =>
            LET latest == scan_generation IN
            /\ scan_progress' # scan_progress => SentByLatest(scan_progress')
            /\ scan_result' # scan_result =>
                  /\ workers[latest].pc = "done"
                  /\ Last(sent[latest]).ok
                  /\ scan_result' = Some(Last(sent[latest]).result)
            /\ error_message' # error_message =>
                  \/ /\ workers[latest].pc = "done"
                     /\ ~Last(sent[latest]).ok
                     /\ error_message' = Some(Last(sent[latest]).error)
                  \/ /\ workers[latest].pc = "died"
                     /\ error_message' = Some(Disconnected)
            /\ mode' # mode => SenderDropped(latest)]_vars

\* C2's case: the first worker was still running when the second scan was
\* started, it has since sent two or more messages, Finished(Ok) the last of
\* them, to a channel nobody reads, and the consumer has ended the second
\* scan in Error on the second worker's Finished(Err).
C2_Witness ==
    /\ scan_generation = 2
    /\ lost[1] >= 2
    /\ workers[1].pc = "done"
    /\ Last(sent[1]).ok
    /\ workers[2].pc = "done"
    /\ mode = "Error"
    /\ error_message = Some(<<"Directory does not exist: ", RootPath>>)

\* The consumer is waiting on the channel of a worker that has died.
WaitingOnDead(g) ==
    /\ mode = "Scanning"
    /\ scan_receiver = g
    /\ workers[g].pc = "died"

\* C4: when the worker of the channel the consumer waits on has died without
\* a Finished message, a poll keeps the last Progress message still queued,
\* if any, as scan_progress and leaves Scanning for Error with the
\* disconnection message and no result; and unless another scan is started
\* the consumer does leave Scanning for Error.
C4_Disconnection ==
    /\ [][(PollTook /\ \E g \in Generations : WaitingOnDead(g)) =>
            LET queue == chan[scan_receiver] IN
            /\ mode' = "Error"
            /\ error_message' = Some(Disconnected)
            /\ scan_result' = None
            /\ scan_receiver' = 0
            /\ scan_progress' = IF queue = <<>> THEN scan_progress
                                ELSE Last(queue).progress]_vars
    /\ \A g \in Generations :
          WaitingOnDead(g) ~> (mode = "Error" \/ scan_generation > g)

\* C4's case: the consumer is in Error with the disconnection message after
\* the worker of its scan died in the Scanning phase, and holds a Progress
\* message that was still queued.
C4_Witness ==
    /\ mode = "Error"
    /\ error_message = Some(Disconnected)
    /\ scan_generation = 1
    /\ workers[1].pc = "died"
    /\ scan_progress.phase = "Scanning"
    /\ scan_result = None

(***************************************************************************)
(* Properties of the delivered tree                                        *)
(***************************************************************************)
\* The position in the walk of the entry that put the node at path into the
\* tree: nodes are appended to their parent's children as the walk meets
\* them, so this is the order of insertion.
InsertedAt(walk, path) ==
    CHOOSE i \in 1..Len(walk) : DisplayPath(walk[i].rel) = path

\* C11: in the tree of every Finished(Ok), each children list, at every
\* depth, is in non-increasing order of aggregated size, and siblings of
\* equal size are in the order in which the walk inserted them.
C11_StableDescending ==
    \A g \in Spawned :
        LET w == workers[g] IN
        (w.pc = "done" /\ w.result.ok) =>
            \A n \in NodesOf(w.result.result.root) :
                \A i, j \in 1..Len(n.children) :
                    i < j =>
                        /\ n.children[i].size >= n.children[j].size
                        /\ n.children[i].size = n.children[j].size =>
                              InsertedAt(w.listing, n.children[i].path)
                                  < InsertedAt(w.listing, n.children[j].path)

\* C11's case: a delivered tree whose root has file b, met first, and
\* directory a, met second, of the same non-zero size, the directory's being
\* the sum of what is below it: b stays before a.
C11_Witness ==
    LET w == workers[1] IN
    /\ w.pc = "done" /\ w.result.ok
    /\ LET root == w.result.result.root IN
       /\ Len(root.children) = 2
       /\ root.children[1].name = "b"
       /\ root.children[2].name = "a"
       /\ root.children[2].children # <<>>
       /\ root.children[1].size = root.children[2].size
       /\ root.children[1].size > 0

(***************************************************************************)
(* Properties of the layout engine                                         *)
(***************************************************************************)
\* p is the path of a proper ancestor of the node at q.
IsAncestor(p, q) == Len(p) < Len(q) /\ IsPrefix(p, q)

\* C12: squarified_treemap returns at most max_nodes cells, none deeper than
\* max_depth, and no cell below a cell of depth max_depth.
C12_Budget ==
    layout_call # None =>
        LET call == layout_call[1] IN
        /\ Len(cells) <= call.max_nodes
        /\ \A i \in 1..Len(cells) : cells[i].depth <= call.max_depth
        /\ \A i, j \in 1..Len(cells) :
              cells[i].depth = call.max_depth =>
                  ~IsAncestor(cells[i].node, cells[j].node)

\* C12's case: a call whose budget of 3 cut the list short of a sibling, on
\* a tree with nodes below depth max_depth = 1 that the canvas has room for.
C12_Witness ==
    /\ layout_call # None
    /\ layout_call[1].max_nodes = 3
    /\ layout_call[1].max_depth = 1
    /\ Len(cells) = 3
    /\ Len(layout_call[1].root.children) = 3
    /\ layout_call[1].root.children[1].children # <<>>
    /\ layout_call[1].root.children[3].size > 0
    /\ cells[2].node = layout_call[1].root.children[1].path
    /\ cells[2].rect.w > F32(4, 1) /\ cells[2].rect.h > F32(4, 1)

\* C13: for max_depth >= 1 and max_nodes >= 1 a list that is not empty
\* starts with the root's cell, at depth 0 on the whole canvas; no node has
\* two cells; every other cell comes after the cell of its parent, which is
\* one level up; the cells below a cell follow it without a gap, so that a
\* cell comes before every later sibling; and siblings come in order of
\* size, largest first.
C13_PreOrder ==
    (/\ layout_call # None
     /\ cells # <<>>
     /\ layout_call[1].max_depth >= 1
     /\ layout_call[1].max_nodes >= 1) =>
        LET call == layout_call[1]
            n == Len(cells)
        IN /\ cells[1] = TreemapCell(call.root, call.bounds, 0)
           /\ \A i, j \in 1..n : i # j => cells[i].node # cells[j].node
           /\ \A j \in 2..n :
                 /\ cells[j].depth > 0
                 /\ \E i \in 1..(j - 1) :
                       /\ cells[i].node = Front(cells[j].node)
                       /\ cells[i].depth = cells[j].depth - 1
           /\ \A i, j, k \in 1..n :
                 (i < j /\ j < k /\ IsAncestor(cells[i].node, cells[k].node))
                     => IsAncestor(cells[i].node, cells[j].node)
           /\ \A j, k \in 2..n :
                 (j < k /\ Front(cells[j].node) = Front(cells[k].node)) =>
                     NodeAt(call.root, cells[j].node).size
                         >= NodeAt(call.root, cells[k].node).size

\* C13's case: six cells on three levels, the first child of the root with
\* its two children before its two siblings, the last sibling smaller than
\* the others.
C13_Witness ==
    /\ layout_call # None
    /\ layout_call[1].max_depth = 2
    /\ Len(cells) = 6
    /\ cells[2].depth = 1 /\ cells[3].depth = 2 /\ cells[4].depth = 2
    /\ cells[5].depth = 1 /\ cells[6].depth = 1
    /\ NodeAt(layout_call[1].root, cells[6].node).size
          < NodeAt(layout_call[1].root, cells[5].node).size

InsideShrunk(r, p) ==
    /\ r.x >= p.x + F32Unit
    /\ r.y >= p.y + F32Unit
    /\ r.x + r.w <= p.x + p.w - F32Unit
    /\ r.y + r.h <= p.y + p.h - F32Unit

\* The interiors of r and q have no point in common.
DisjointInteriors(r, q) ==
    \/ r.w = 0 \/ r.h = 0 \/ q.w = 0 \/ q.h = 0
    \/ r.x + r.w <= q.x
    \/ q.x + q.w <= r.x
    \/ r.y + r.h <= q.y
    \/ q.y + q.h <= r.y

\* The index of the cell of the parent of the node of cell j, 0 if none.
ParentCell(j) ==
    IF \E i \in 1..Len(cells) : cells[i].node = Front(cells[j].node)
    THEN CHOOSE i \in 1..Len(cells) : cells[i].node = Front(cells[j].node)
    ELSE 0

\* C14: every cell of depth > 0 lies in its parent's rectangle shrunk by 1
\* on each side, and two cells with the same parent have disjoint
\* interiors.
C14_Containment ==
    \A j \in 1..Len(cells) :
        cells[j].depth > 0 =>
            /\ ParentCell(j) # 0
            /\ InsideShrunk(cells[j].rect, cells[ParentCell(j)].rect)
            /\ \A k \in 1..Len(cells) :
                  (k # j /\ Front(cells[k].node) = Front(cells[j].node)) =>
                      DisjointInteriors(cells[j].rect, cells[k].rect)

\* The indices of the cells of the children of the node of cell i.
ChildCells(i) ==
    {j \in 1..Len(cells) : Front(cells[j].node) = cells[i].node}

\* The children of positive size of the node of cell i.
PositiveChildren(i) ==
    SelectSeq(NodeAt(layout_call[1].root, cells[i].node).children,
              LAMBDA child : child.size > 0)

\* Cell i is a parent all of whose children of positive size have a cell.
FullyLaidOut(i) ==
    /\ ChildCells(i) # {}
    /\ Cardinality(ChildCells(i)) = Len(PositiveChildren(i))

\* The area, in square units, of a rectangle and of the inside of a
\* rectangle shrunk by 1 on each side, as real numbers.
RealArea(r) == r.w * r.h
RealInnerArea(r) == (r.w - 2 * F32Unit) * (r.h - 2 * F32Unit)

\* The sum of the areas of the cells with the indices in set.
RECURSIVE CoveredArea(_)
CoveredArea(set) ==
    IF set = {} THEN 0
    ELSE LET j == CHOOSE j \in set : TRUE
         IN RealArea(cells[j].rect) + CoveredArea(set \ {j})

\* What "up to rounding" allows: one part in 2^(F32Bits - 3) of the inner
\* area, eight times the spacing of the floats.
RoundingShare == Pow2(F32Bits - 3)

\* C15: where all children of positive size of a parent have a cell, the
\* area of the cell of child i is, up to rounding, the share si / sum(s) of
\* the parent's inner area A, and the areas add up to A, up to rounding: not
\* to more, and not to less since the cells cover the inner rectangle.
C15_Proportional ==
    \A i \in 1..Len(cells) :
        FullyLaidOut(i) =>
            LET A == RealInnerArea(cells[i].rect)
                total == PlainSum(PositiveChildren(i))
                size(j) == NodeAt(layout_call[1].root, cells[j].node).size
                cell_area(j) == RealArea(cells[j].rect)
                covered == CoveredArea(ChildCells(i))
            IN /\ \A j \in ChildCells(i) :
                     /\ (cell_area(j) * total - A * size(j)) * RoundingShare
                           <= A * total
                     /\ (A * size(j) - cell_area(j) * total) * RoundingShare
                           <= A * total
               /\ (covered - A) * RoundingShare <= A
               /\ (A - covered) * RoundingShare <= A

(***************************************************************************)
(* Properties of the warnings of a scan                                    *)
(***************************************************************************)

\* The message that the second walk records for a failing entry.
WarningFor(item) ==
    IF item.kind = "err" THEN format_walkdir_error(item.rel)
    ELSE <<"Could not read metadata for", DisplayPath(item.rel)>>

RECURSIVE WarningsFor(_)
WarningsFor(failed) ==
    IF failed = <<>> THEN <<>>
    ELSE <<WarningFor(Head(failed))>> \o WarningsFor(Tail(failed))

\* The entries that the second walk of worker g handles: those within the
\* depth limit, up to the file that the file limit stops at.
Handled(g) ==
    LET w == workers[g]
        walk == LimitDepth(w.listing, Max(w.config.max_depth, 1))
    IN IF w.config.max_files = None THEN walk
       ELSE BeforeFile(walk, w.config.max_files[1])

\* The entry that the second walk of worker g is at fails: it is a walk
\* error, or a file within the file limit whose metadata cannot be read.
AtFailure(g) ==
    LET w == workers[g]
        item == Head(w.walk)
    IN /\ w.pc = "scanning"
       /\ w.walk # <<>>
       /\ \/ item.kind = "err"
          \/ /\ item.kind = "file"
             /\ ~item.meta_ok
             /\ ~AtFileLimit(w.config, w.progress)

\* A step of the second walk of worker g over a failing entry: one more
\* warning is counted, the entry's message is appended to the list, an
\* unreadable file is in the tree with size 0, and the walk is at the next
\* entry.
FailureRecorded(g) ==
    LET w == workers[g]
        item == Head(w.walk)
    IN /\ workers'[g].progress.warnings = w.progress.warnings + 1
       /\ workers'[g].warnings = Append(w.warnings, WarningFor(item))
       /\ workers'[g].pc = "scanning"
       /\ workers'[g].walk = Tail(w.walk)
       /\ item.kind = "file" =>
             \E n \in NodesOf(workers'[g].root) :
                 /\ n.path = DisplayPath(item.rel)
                 /\ n.size = 0
                 /\ n.children = <<>>

\* C17: in the Scanning phase every failing entry adds one to the warning
\* counter and one message to the warnings list and the walk goes on, an
\* unreadable file being inserted with size 0; no other entry changes the
\* counter or the list; so every ScanResult has stats.warnings equal to the
\* length of its warnings list, which holds the messages of the failing
\* entries in the order of the walk, and a scan of a directory ends with
\* Finished(Ok) whatever entries failed.
C17_Warnings ==
    /\ [][\A g \in Spawned :
             (workers[g].pc = "scanning" /\ workers'[g] # workers[g]) =>
                 IF AtFailure(g) THEN FailureRecorded(g)
                 ELSE /\ workers'[g].progress.warnings
                            = workers[g].progress.warnings
                      /\ workers'[g].warnings = workers[g].warnings]_vars
    /\ [](\A g \in Spawned :
             /\ workers[g].pc \in {"returned", "done"}
                    /\ workers[g].root_kind = "dir"
                 => /\ workers[g].result.ok
                    /\ workers[g].result.result.stats.warnings
                          = Len(workers[g].result.result.warnings)
                    /\ workers[g].result.result.warnings
                          = WarningsFor(Failures(Handled(g)))
             /\ \A i \in 1..Len(sent[g]) :
                    (sent[g][i].type = "Finished" /\ sent[g][i].ok) =>
                        sent[g][i].result.stats.warnings
                            = Len(sent[g][i].result.warnings))

\* C17's case: a scan has ended with Finished(Ok) after a walk error, then
\* an unreadable file, then a file that was read and is in the tree.
C17_Witness ==
    LET w == workers[1] IN
    /\ w.pc = "done" /\ w.result.ok
    /\ w.result.result.stats.warnings = 2
    /\ Len(w.result.result.warnings) = 2
    /\ w.result.result.warnings[1][1] = "Could not access"
    /\ w.result.result.warnings[2][1] = "Could not read metadata for"
    /\ Last(w.listing).kind = "file" /\ Last(w.listing).meta_ok
    /\ w.result.result.root.size > 0

(***************************************************************************)
(* Properties of the layout cache                                          *)
(***************************************************************************)

\* What a cell list is built for: the scan, the rectangle handed to the
\* layout engine, the depth, the node budget and the minimum cell size.
Parameters(generation, canvas, depth, max_nodes, min_cell) ==
    LET canvas_rect == RectFromMinSize(canvas.min, canvas.available) IN
    [scan_generation |-> generation,
     bounds |-> LayoutRect(canvas_rect.min.x, canvas_rect.min.y,
                           RectWidth(canvas_rect), RectHeight(canvas_rect)),
     depth |-> depth,
     max_nodes |-> max_nodes,
     min_cell_pixels |-> min_cell]

\* What the cell list of a cache was built for.
BuiltFor(cache) ==
    [scan_generation |-> cache.scan_generation,
     bounds |-> cache.bounds,
     depth |-> cache.depth,
     max_nodes |-> cache.max_nodes,
     min_cell_pixels |-> cache.min_cell_pixels]

\* A step of render_ready_state that changed something.
RenderTook ==
    /\ mode = "Ready" /\ mode' = "Ready"
    /\ <<treemap_depth, max_render_nodes, min_cell_pixels, treemap_cache,
         frame>>' # <<treemap_depth, max_render_nodes, min_cell_pixels,
                      treemap_cache, frame>>

\* The layout engine is called again only if there is no cache or one of
\* the values differs from what the cache was built for.
RebuildOnlyOnChange ==
    [][(RenderTook /\ frame'[1].rebuilt) =>
          \/ treemap_cache = None
          \/ BuiltFor(treemap_cache[1])
                # Parameters(scan_generation', frame'[1].canvas,
                             treemap_depth', max_render_nodes',
                             min_cell_pixels')]_vars

\* A frame that does not call the layout engine leaves the cache as it is.
ReuseUnchanged ==
    [][(RenderTook /\ ~frame'[1].rebuilt) =>
          treemap_cache' = treemap_cache]_vars

\* The latest frame drew the cell list of the cache.
Drawn == mode = "Ready" /\ frame # None /\ frame[1].drew

\* C18 as stated: the layout engine is called again only on a change, the
\* cache is reused unchanged otherwise, and the cell list that a frame draws
\* was built for the current scan and exactly the current canvas, depth,
\* node budget and minimum cell size.
C18_CacheExact ==
    /\ RebuildOnlyOnChange
    /\ ReuseUnchanged
    /\ [](Drawn =>
             /\ treemap_cache # None
             /\ BuiltFor(treemap_cache[1])
                   = Parameters(scan_generation, frame[1].canvas,
                                treemap_depth, max_render_nodes,
                                min_cell_pixels))

\* The values that cache_needs_rebuild takes for equal: the same scan,
\* depth and node budget, an origin no farther than f32::EPSILON, a width
\* and a height that round to the same numbers of pixels, and a minimum
\* cell size that differs by f32::EPSILON at most.
WithinTolerance(built, now) ==
    /\ built.scan_generation = now.scan_generation
    /\ built.depth = now.depth
    /\ built.max_nodes = now.max_nodes
    /\ ~FartherThanEpsilon(Pos2(built.bounds.x, built.bounds.y),
                           Pos2(now.bounds.x, now.bounds.y))
    /\ Max(F32RoundWhole(built.bounds.w), 1)
          = Max(F32RoundWhole(now.bounds.w), 1)
    /\ Max(F32RoundWhole(built.bounds.h), 1)
          = Max(F32RoundWhole(now.bounds.h), 1)
    /\ ~DiffersByMoreThanEpsilon(built.min_cell_pixels, now.min_cell_pixels)

\* C18, amended: the layout engine is called again only on a change, the
\* cache is reused unchanged otherwise, and the cell list that a frame draws
\* was built for the current scan, depth and node budget, and for a canvas
\* and a minimum cell size that are the current ones within the tolerance
\* of cache_needs_rebuild.
C18_CacheCurrent ==
    /\ RebuildOnlyOnChange
    /\ ReuseUnchanged
    /\ [](Drawn =>
             /\ treemap_cache # None
             /\ WithinTolerance(
                    BuiltFor(treemap_cache[1]),
                    Parameters(scan_generation, frame[1].canvas,
                               treemap_depth, max_render_nodes,
                               min_cell_pixels)))

\* C18's case: on the result of the second scan a frame has drawn the cells
\* of a cache that it did not rebuild, though the canvas is wider, by less
\* than a pixel, than the one the cells were laid out in.
C18_Witness ==
    /\ scan_generation = 2
    /\ Drawn
    /\ ~frame[1].rebuilt
    /\ treemap_cache # None
    /\ Len(treemap_cache[1].cells) = 3
    /\ treemap_cache[1].bounds.w
          < RectWidth(RectFromMinSize(frame[1].canvas.min,
                                     frame[1].canvas.available))

(***************************************************************************)
(* Properties of insert_relative                                           *)
(***************************************************************************)

\* The paths of the nodes of a tree.
PathsOf(root) == {n.path : n \in NodesOf(root)}

\* The number of nodes of a tree.
RECURSIVE CountNodes(_)
CountNodes(node) ==
    LET RECURSIVE below(_)
        below(n) == IF n = 0 THEN 0
                    ELSE below(n - 1) + CountNodes(node.children[n])
    IN 1 + below(Len(node.children))

\* The paths from below the root down to path, path included.
Chain(path) == {SubSeq(path, 1, n) : n \in (Len(RootPath) + 1)..Len(path)}

\* The paths of the children of a node, in their order.
ChildPaths(node) == [i \in 1..Len(node.children) |-> node.children[i].path]

\* The latest call was insert_relative(path, s) and took before to after.
Inserted(before, after, path, s) ==
    LET target == Target(path) IN
    IF target = RootPath THEN after = before
    ELSE /\ PathsOf(after) = PathsOf(before) \cup Chain(target)
         /\ CountNodes(after)
               = CountNodes(before)
                   + Cardinality(Chain(target) \ PathsOf(before))
         /\ NodeAt(after, target).size = s
         /\ \A q \in PathsOf(after) :
               LET new == NodeAt(after, q) IN
               /\ new.name = Last(q)
               /\ q \notin PathsOf(before) =>
                     /\ q # target => new.size = 0
                     /\ Len(new.children) = (IF q = target THEN 0 ELSE 1)
               /\ q \in PathsOf(before) =>
                     LET old == NodeAt(before, q) IN
                     /\ q # target => new.size = old.size
                     /\ IF IsPrefix(q, target) /\ q # target
                        THEN \/ ChildPaths(new) = ChildPaths(old)
                             \/ ChildPaths(new)
                                   = Append(ChildPaths(old),
                                            SubSeq(target, 1, Len(q) + 1))
                        ELSE new.children = old.children
         /\ insert_relative(after, path, s) = after

\* C19: insert_relative(path, s) creates the missing nodes on the way to its
\* terminal node with size 0, sets the terminal node's size to s whatever it
\* was, skips "." components (a path of nothing else changes nothing), and
\* leaves every other size and all children off the way as they were;
\* the same call made again changes nothing.
C19_Insert ==
    [][calls' # calls =>
          Inserted(tree, tree', Last(calls')[1], Last(calls')[2])]_vars

\* C19's case: three calls have been made, the first has created a node and
\* a child below it, the second has named the node through a path with a
\* "." and given it a size, and the third has named the child again and
\* replaced its size.
C19_Witness ==
    /\ Len(calls) = 3
    /\ Len(calls[1][1]) = 2 /\ Len(calls[2][1]) = 2
    /\ "." \notin {calls[1][1][1], calls[1][1][2]}
    /\ calls[2][1][1] = "." /\ calls[2][1][2] = calls[1][1][1]
    /\ calls[2][2] > 0
    /\ calls[3][1] = calls[1][1]
    /\ calls[3][2] # calls[1][2]
    /\ NodeAt(tree, Target(calls[1][1])).size = calls[3][2]
    /\ NodeAt(tree, Front(Target(calls[1][1]))).size = calls[2][2]

\* C20: after any calls of insert_relative no two children of a node have
\* the same name, the path of every child is its parent's path joined with
\* its name, and no two nodes of the tree have the same path.
C20_UniquePaths ==
    /\ \A n \in NodesOf(tree) :
          \A i \in 1..Len(n.children) :
             /\ n.children[i].path = Append(n.path, n.children[i].name)
             /\ \A j \in 1..Len(n.children) :
                   i # j => n.children[i].name # n.children[j].name
    /\ CountNodes(tree) = Cardinality(PathsOf(tree))

\* C20's case: three calls have named the same node twice and a sibling of
\* it once, below a node that the first of them created, and the tree has
\* the root and three more nodes.
C20_Witness ==
    /\ Len(calls) = 3
    /\ Len(Target(calls[1][1])) = 3
    /\ \E i, j \in 1..3 : i # j /\ Target(calls[i][1]) = Target(calls[j][1])
    /\ \E i, j \in 1..3 :
          /\ Target(calls[i][1]) # Target(calls[j][1])
          /\ Len(Target(calls[j][1])) = 3
          /\ Front(Target(calls[i][1])) = Front(Target(calls[j][1]))
    /\ CountNodes(tree) = 4

(***************************************************************************)
(* Properties of the estimate                                              *)
(***************************************************************************)
CountingOf(g) ==
    SelectSeq(sent[g], LAMBDA m : m.type = "Progress"
                                  /\ m.progress.phase = "Counting")

\* entries * 100 / total, held to [0, 99.9]
PercentOf(entries, total) ==
    IF PctLE(Pct(999, 10), Pct(entries * 100, total)) THEN Pct(999, 10)
    ELSE Pct(entries * 100, total)

\* C21: once the Counting phase of a scan has ended, its estimate is the
\* number of entries it counted, or 1 if it counted none; the estimate is at
\* least 1; every Scanning message carries it and, unless it is the terminal
\* one, a percentage that is entries_scanned * 100 divided by it; and the
\* ScanStats of the result report it as estimated_total_entries.
C21_Estimate ==
    \A g \in Spawned :
        LET w == workers[g]
            counting == CountingOf(g)
            msgs == ScanningOf(g)
            ended == w.pc \in {"returned", "done"}
        IN (w.root_kind = "dir" /\ w.pc \in {"scanning", "returned", "done"}) =>
              /\ counting # <<>>
              /\ LET last == Last(counting).progress
                     estimate == last.total_estimated_entries
                 IN /\ estimate # None
                    /\ estimate[1] >= 1
                    /\ estimate[1] = IF last.entries_scanned = 0 THEN 1
                                     ELSE last.entries_scanned
                    /\ \A i \in 1..Len(msgs) :
                          /\ msgs[i].progress.total_estimated_entries = estimate
                          /\ (ended /\ i = Len(msgs))
                             \/ PctEq(msgs[i].progress.progress_percent[1],
                                      PercentOf(msgs[i].progress.entries_scanned,
                                                estimate[1]))
                    /\ ended =>
                          w.result.result.stats.estimated_total_entries
                              = estimate

\* C21's case: a successful scan has ended whose Counting phase counted three
\* entries and whose Scanning phase sent a message at two entries of three.
C21_Witness ==
    LET msgs == ScanningOf(1) IN
    /\ workers[1].pc = "done"
    /\ Last(sent[1]).ok
    /\ Last(sent[1]).result.stats.estimated_total_entries = Some(3)
    /\ \E i \in 1..(Len(msgs) - 1) :
          /\ msgs[i].progress.entries_scanned = 2
          /\ PctEq(msgs[i].progress.progress_percent[1], Pct(200, 3))

(***************************************************************************)
(* Properties of the progress cadence                                      *)
(***************************************************************************)
\* The messages msgs of a phase that has ended are one for each positive
\* multiple of interval that entries_scanned has reached, in order, and one
\* more.
EveryIntervalAndOnceMore(msgs, interval) ==
    /\ msgs # <<>>
    /\ Len(msgs) = Last(msgs).progress.entries_scanned \div interval + 1
    /\ \A i \in 1..(Len(msgs) - 1) :
          msgs[i].progress.entries_scanned = i * interval

\* C22: in each phase a Progress message is sent once each time
\* entries_scanned reaches a positive multiple of progress_interval and once
\* more at the end of the phase, and no other.
C22_Cadence ==
    \A g \in Spawned :
        LET w == workers[g]
            interval == Max(w.config.progress_interval, 1)
        IN /\ (w.root_kind = "dir" /\ w.pc \in {"scanning", "returned", "done"})
                 => EveryIntervalAndOnceMore(CountingOf(g), interval)
           /\ (w.root_kind = "dir" /\ w.pc \in {"returned", "done"})
                 => EveryIntervalAndOnceMore(ScanningOf(g), interval)

(***************************************************************************)
(* Properties of the file limit                                            *)
(***************************************************************************)
\* The entries of a walk up to its n-th file, that file included.
RECURSIVE ThroughFile(_, _)
ThroughFile(walk, n) ==
    IF walk = <<>> \/ n = 0 THEN <<>>
    ELSE <<Head(walk)>>
         \o ThroughFile(Tail(walk), IF Head(walk).kind = "file" THEN n - 1
                                    ELSE n)

\* The entries of a walk that a walker yields as Ok(entry).
Entries(walk) == SelectSeq(walk, LAMBDA x : x.kind # "err")

\* The paths of the nodes that the entries of a walk make, the root's with
\* them.
PathsMade(walk) ==
    {RootPath} \cup {DisplayPath(Entries(walk)[i].rel) :
                        i \in 1..Len(Entries(walk))}

\* C23: with max_files = N, a Scanning walk that holds N files stops at the
\* N-th of them: the final stats count, and the tree holds, the entries up to
\* that file and no later one, and truncated is true.
C23_StopsAtLimit ==
    \A g \in Spawned :
        LET w == workers[g]
            walk == LimitDepth(w.listing, Max(w.config.max_depth, 1))
        IN (/\ w.pc = "done" /\ w.result.ok
            /\ w.config.max_files # None
            /\ Len(Files(walk)) >= w.config.max_files[1]) =>
               LET stats == w.result.result.stats
                   walked == ThroughFile(walk, w.config.max_files[1])
               IN /\ stats.truncated
                  /\ stats.entries_scanned = Len(Entries(walked))
                  /\ stats.files_scanned = w.config.max_files[1]
                  /\ stats.directories_scanned
                        = Len(SelectSeq(walked, LAMBDA x :
                                 x.kind = "dir" /\ x.rel # <<>>))
                  /\ PathsOf(w.result.result.root) = PathsMade(walked)

\* C23 amended: with max_files = N, the Scanning walk stops at the first file
\* it meets when N files have been scanned: that file is counted as an entry
\* and nothing else, neither it nor any later entry is put into the tree,
\* and truncated is true in the final stats; the directories between the
\* N-th file and that file are counted and inserted.  A walk of at most N
\* files is scanned to its end and truncated is false.
C23_StopsAtNextFile ==
    \A g \in Spawned :
        LET w == workers[g]
            walk == LimitDepth(w.listing, Max(w.config.max_depth, 1))
        IN (w.pc = "done" /\ w.result.ok /\ w.config.max_files # None) =>
              LET stats == w.result.result.stats
                  stopped == Len(Files(walk)) > w.config.max_files[1]
                  walked == IF stopped
                            THEN BeforeFile(walk, w.config.max_files[1])
                            ELSE walk
              IN /\ stats.truncated = stopped
                 /\ stats.entries_scanned
                       = Len(Entries(walked)) + (IF stopped THEN 1 ELSE 0)
                 /\ stats.files_scanned = Len(Files(walked))
                 /\ stopped => stats.files_scanned = w.config.max_files[1]
                 /\ stats.directories_scanned
                       = Len(SelectSeq(walked, LAMBDA x :
                                x.kind = "dir" /\ x.rel # <<>>))
                 /\ PathsOf(w.result.result.root) = PathsMade(walked)

\* C23's case: a scan with max_files = 1 has ended on a walk of a file, a
\* directory and a file below the directory: the directory is in the tree
\* and the second file is not.
C23_Witness ==
    LET w == workers[1] IN
    /\ w.pc = "done" /\ w.result.ok
    /\ w.config.max_files = Some(1)
    /\ Len(w.listing) = 4
    /\ w.listing[2].kind = "file"
    /\ w.listing[3].kind = "dir"
    /\ w.listing[4].kind = "file" /\ Len(w.listing[4].rel) = 2
    /\ w.config.max_depth = 2
    /\ w.result.result.stats.truncated
    /\ w.result.result.stats.directories_scanned = 1
    /\ CountNodes(w.result.result.root) = 3

(***************************************************************************)
(* Properties of a poll                                                    *)
(***************************************************************************)
\* A step of poll_scan_messages that took or changed something: a step in
\* Scanning mode that is neither a worker's nor a start_scan.
PollStep ==
    /\ mode = "Scanning"
    /\ scan_receiver # 0
    /\ workers' = workers
    /\ scan_generation' = scan_generation
    /\ <<mode, scan_progress, scan_result, error_message, chan>>'
          # <<mode, scan_progress, scan_result, error_message, chan>>

\* The Progress messages of a queue; none follows a Finished message.
ProgressTaken(queue) ==
    SelectSeq(queue, LAMBDA m : m.type = "Progress")

\* The terminal messages of a queue.
TerminalIn(queue) == SelectSeq(queue, LAMBDA m : m.type = "Finished")

\* The thread of scan g has ended.
Terminated(g) == workers[g].pc \in {"done", "died"}

\* C24: in Scanning mode a poll can always be taken, whatever is queued; it
\* empties the queue and keeps the last Progress message taken as
\* scan_progress; when no Finished message was queued (and the thread has
\* not died, which the channel reports as a disconnection) the consumer
\* stays in Scanning with its receiver, where the next poll can be taken;
\* and once the worker of the scan waited on has ended, the consumer leaves
\* Scanning for Ready or Error unless another scan is started first.
C24_Poll ==
    /\ [](mode = "Scanning" => ENABLED PollScanMessages)
    /\ [][PollStep =>
            LET queue == chan[scan_receiver]
                taken == ProgressTaken(queue)
            IN /\ chan'[scan_receiver] = <<>>
               /\ scan_progress' = IF taken = <<>> THEN scan_progress
                                   ELSE Last(taken).progress
               /\ IF TerminalIn(queue) # <<>>
                  THEN /\ mode' = IF Head(TerminalIn(queue)).ok
                                  THEN "Ready" ELSE "Error"
                       /\ scan_receiver' = 0
                  ELSE IF workers[scan_receiver].pc = "died"
                  THEN mode' = "Error"
                  ELSE /\ mode' = "Scanning"
                       /\ scan_receiver' = scan_receiver
                       /\ scan_result' = None
                       /\ error_message' = None]_vars
    /\ \A g \in Generations :
          (mode = "Scanning" /\ scan_receiver = g /\ Terminated(g))
              ~> (mode \in {"Ready", "Error"} \/ scan_generation > g)

\* C24's case: the consumer is still Scanning after a poll that emptied the
\* queue and found no Finished message: it holds a Scanning-phase Progress
\* message of a worker that is still running.
C24_Witness ==
    /\ mode = "Scanning"
    /\ scan_receiver = 1
    /\ chan[1] = <<>>
    /\ workers[1].pc = "scanning"
    /\ scan_progress.phase = "Scanning"
    /\ scan_progress.entries_scanned = 2

(***************************************************************************)
(* Properties of a superseded worker                                       *)
(***************************************************************************)
\* The consumer has started a later scan than g: the receiver of g's
\* channel is dropped.
Superseded(g) == workers[g].pc # "unspawned" /\ scan_generation > g

\* A message without what depends on the clock.
Timeless(m) ==
    IF m.type = "Progress" THEN [m EXCEPT !.progress.eta = None] ELSE m

\* What a worker has handed to tx.send, without what depends on the clock.
Stream(g) == [i \in 1..Len(sent[g]) |-> Timeless(sent[g][i])]

\* C25: a send of a superseded worker fails and queues nothing; a worker
\* that has lost messages ends with the same messages handed over, the same
\* counters and the same tree as a worker of the same scan that lost none;
\* and a superseded worker does reach the end of its thread.
C25_Superseded ==
    /\ [][\A g \in Generations :
             (Superseded(g) /\ workers'[g] # workers[g]) =>
                 /\ chan' = chan
                 /\ lost'[g] = lost[g] + Len(sent'[g]) - Len(sent[g])]_vars
    /\ [](\A g, h \in Generations :
             (/\ workers[g].pc = "done" /\ workers[h].pc = "done"
              /\ lost[g] > 0 /\ lost[h] = 0
              /\ workers[g].config = workers[h].config
              /\ workers[g].root_kind = workers[h].root_kind
              /\ workers[g].listing = workers[h].listing) =>
                 /\ workers[g].result = workers[h].result
                 /\ workers[g].progress = workers[h].progress
                 /\ workers[g].root = workers[h].root
                 /\ Stream(g) = Stream(h))
    /\ \A g \in Generations : Superseded(g) ~> (workers[g].pc = "done")

\* C25's case: the first worker was superseded before it sent anything, lost
\* every one of its messages, met the file limit and has ended with
\* Finished(Ok); the second worker, of the same scan, has ended and lost
\* none.
C25_Witness ==
    /\ workers[1].pc = "done" /\ workers[2].pc = "done"
    /\ workers[1].config = workers[2].config
    /\ workers[1].listing = workers[2].listing
    /\ lost[1] = Len(sent[1]) /\ lost[1] >= 4
    /\ lost[2] = 0
    /\ Last(sent[1]).ok
    /\ Last(sent[1]).result.stats.truncated
    /\ Last(sent[1]).result.stats.files_scanned = 1

(***************************************************************************)
(* Properties of the layout of empty children                              *)
(***************************************************************************)
\* Every child of the node has size 0; a childless node has none that has
\* not.
AllChildrenEmpty(node) ==
    \A i \in 1..Len(node.children) : node.children[i].size = 0

\* C26: no child of size 0 has a cell, and below the cell of a node whose
\* children all have size 0 there is no cell, as there is none below the
\* cell of a childless node.
C26_EmptyChildren ==
    layout_call # None =>
        LET root == layout_call[1].root IN
        /\ \A j \in 1..Len(cells) :
              cells[j].depth > 0 => NodeAt(root, cells[j].node).size > 0
        /\ \A i, j \in 1..Len(cells) :
              AllChildrenEmpty(NodeAt(root, cells[i].node))
                  => ~IsAncestor(cells[i].node, cells[j].node)
        /\ (AllChildrenEmpty(root) /\ cells # <<>>) =>
              cells = <<TreemapCell(root, layout_call[1].bounds, 0)>>

\* C26's case: a call with room and depth for every node, on a root with
\* two children of positive size and one of size 0: three cells or more,
\* none of them the empty child's.
C26_Witness ==
    /\ layout_call # None
    /\ layout_call[1].max_depth = 2
    /\ layout_call[1].max_nodes = MaxCells
    /\ Len(layout_call[1].root.children) = 3
    /\ layout_call[1].root.children[3].size = 0
    /\ layout_call[1].root.children[2].size > 0
    /\ Len(cells) >= 3
    /\ \A j \in 1..Len(cells) :
          cells[j].node # layout_call[1].root.children[3].path

(***************************************************************************)
(* Properties of the direction of a row                                    *)
(***************************************************************************)
\* The distinct x of the rectangles of placed pairs.
DistinctX(placed) == {placed[i].rect.x : i \in 1..Len(placed)}

\* C27: layout_row on a rectangle with w >= h gives every item of the row
\* the rectangle's x and one width, puts the first at the rectangle's y and
\* each next one below the one before, and returns the rectangle without
\* that width on its left; on a rectangle with w < h it gives every item the
\* rectangle's y and one height, puts the first at the rectangle's x and
\* each next one to the right of the one before, and returns the rectangle
\* without that height at its top.  So squarify_items on a rectangle wider
\* than tall, when it does not place the items as one row, places them at
\* more than one x.
C27_Direction ==
    row_call # None =>
        LET call == row_call[1]
            bounds == call.bounds
            placed == row_output[1].placed
            remaining == row_output[1].remaining
            n == Len(placed)
        IN /\ n = Len(call.row)
           /\ call.function = "layout_row" =>
                 /\ \A i \in 1..n : placed[i].item = call.row[i]
                 /\ IF bounds.w >= bounds.h
                    THEN /\ \A i \in 1..n :
                               /\ placed[i].rect.x = bounds.x
                               /\ placed[i].rect.w = placed[1].rect.w
                         /\ placed[1].rect.y = bounds.y
                         /\ \A i \in 1..(n - 1) :
                               placed[i + 1].rect.y
                                   = F32Add(placed[i].rect.y, placed[i].rect.h)
                         /\ remaining
                               = LayoutRect(
                                     F32Add(bounds.x, placed[1].rect.w),
                                     bounds.y,
                                     Max(F32Sub(bounds.w, placed[1].rect.w), 0),
                                     bounds.h)
                    ELSE /\ \A i \in 1..n :
                               /\ placed[i].rect.y = bounds.y
                               /\ placed[i].rect.h = placed[1].rect.h
                         /\ placed[1].rect.x = bounds.x
                         /\ \A i \in 1..(n - 1) :
                               placed[i + 1].rect.x
                                   = F32Add(placed[i].rect.x, placed[i].rect.w)
                         /\ remaining
                               = LayoutRect(
                                     bounds.x,
                                     F32Add(bounds.y, placed[1].rect.h),
                                     bounds.w,
                                     Max(F32Sub(bounds.h, placed[1].rect.h), 0))
           /\ (/\ call.function = "squarify_items"
               /\ bounds.w > bounds.h
               /\ placed # layout_row(call.row, bounds).placed) =>
                  Cardinality(DistinctX(placed)) > 1

\* C27's case: layout_row has laid three items of different areas on the
\* tall rectangle, side by side.
C27_Witness ==
    /\ row_call # None
    /\ row_call[1].function = "layout_row"
    /\ row_call[1].bounds.w < row_call[1].bounds.h
    /\ Len(row_call[1].row) = 3
    /\ Cardinality(DistinctX(row_output[1].placed)) = 3
    /\ row_output[1].remaining.h < row_call[1].bounds.h
    /\ row_output[1].remaining.h > 0

(***************************************************************************)
(* Properties of the consumer's mode                                       *)
(***************************************************************************)
\* C28: at all times the mode is Scanning exactly when a receiver is held,
\* Ready exactly when a result is held and Error exactly when an error
\* message is held; and the mode becomes Scanning only when a scan is
\* started, so that no scan leaves Scanning twice.
C28_ModeAgrees ==
    /\ [](/\ (mode = "Scanning") <=> (scan_receiver # 0)
          /\ (mode = "Ready") <=> (scan_result # None)
          /\ (mode = "Error") <=> (error_message # None))
    /\ [][(mode # "Scanning" /\ mode' = "Scanning")
              => scan_generation' = scan_generation + 1]_vars
    /\ [][(mode = "Scanning" /\ mode' # "Scanning")
              => /\ scan_generation' = scan_generation
                 /\ mode' \in {"Ready", "Error"}]_vars

\* C28's case: the second scan has ended in Ready after the first had ended
\* in Error: a result is held, and neither a receiver nor the first scan's
\* error message.
C28_Witness ==
    /\ scan_generation = 2
    /\ mode = "Ready"
    /\ scan_result # None /\ scan_receiver = 0 /\ error_message = None
    /\ workers[1].pc = "done" /\ ~workers[1].result.ok
    /\ lost[1] = 0

(***************************************************************************)
(* Properties of the final counters                                        *)
(***************************************************************************)
\* C29: in the ScanStats of a Finished(Ok) whose second walk yielded the
\* root entry, entries_scanned is files_scanned + directories_scanned and 1
\* for the root, and 1 more for the rejected file when truncated is true;
\* and the tree has files_scanned + directories_scanned nodes below its
\* root.
C29_Counters ==
    \A g \in Spawned :
        LET w == workers[g] IN
        (/\ w.pc = "done" /\ w.result.ok
         /\ Head(w.listing) = RootEntry) =>
            LET stats == w.result.result.stats IN
            /\ stats.entries_scanned
                  = (IF stats.truncated THEN 2 ELSE 1)
                    + stats.files_scanned + stats.directories_scanned
            /\ CountNodes(w.result.result.root)
                  = 1 + stats.files_scanned + stats.directories_scanned

\* C29's case: a truncated scan has ended that had scanned a directory and a
\* file before the limit rejected a second file: four entries, two nodes
\* below the root.
C29_Witness ==
    LET w == workers[1] IN
    /\ w.pc = "done" /\ w.result.ok
    /\ Head(w.listing) = RootEntry
    /\ w.result.result.stats.truncated
    /\ w.result.result.stats.files_scanned = 1
    /\ w.result.result.stats.directories_scanned = 1
    /\ w.result.result.stats.entries_scanned = 4
    /\ CountNodes(w.result.result.root) = 3

(***************************************************************************)
(* Properties of the message stream of a successful scan                   *)
(***************************************************************************)
IsPhase(m, phase) == m.type = "Progress" /\ m.progress.phase = phase

\* C30: in the messages of a scan that ended with Finished(Ok), every
\* Counting message precedes every Scanning message, there is at least one
\* of each, and the message before Finished is a Scanning message with
\* remaining_estimated_entries 0 and eta 0 that carries the counters and the
\* truncated flag of the ScanStats inside Finished.
C30_Stream ==
    \A g \in Spawned :
        LET msgs == sent[g] IN
        (msgs # <<>> /\ Last(msgs).type = "Finished" /\ Last(msgs).ok) =>
            /\ \A i, j \in 1..Len(msgs) :
                  (IsPhase(msgs[i], "Counting") /\ IsPhase(msgs[j], "Scanning"))
                      => i < j
            /\ CountingOf(g) # <<>>
            /\ ScanningOf(g) # <<>>
            /\ Len(msgs) >= 2
            /\ LET final == msgs[Len(msgs) - 1]
                   stats == Last(msgs).result.stats
               IN /\ IsPhase(final, "Scanning")
                  /\ final.progress.remaining_estimated_entries = Some(0)
                  /\ final.progress.eta = Some(Pct(0, 1))
                  /\ final.progress.entries_scanned = stats.entries_scanned
                  /\ final.progress.files_scanned = stats.files_scanned
                  /\ final.progress.directories_scanned
                        = stats.directories_scanned
                  /\ final.progress.warnings = stats.warnings
                  /\ final.progress.truncated = stats.truncated

\* C30's case: a truncated scan has ended with Finished(Ok) after more than
\* one message of each phase.
C30_Witness ==
    /\ sent[1] # <<>>
    /\ Last(sent[1]).type = "Finished" /\ Last(sent[1]).ok
    /\ Last(sent[1]).result.stats.truncated
    /\ Len(CountingOf(1)) >= 2
    /\ Len(ScanningOf(1)) >= 2

====
